---- MODULE Spec2Model ----
(***************************************************************************)
(* Request governance of the invoice extractor: the in-memory rate limiter *)
(* (backend/utils/rate_limiter.py), the duplicate detector                 *)
(* (backend/utils/duplicate_detector.py) and the two endpoints that use    *)
(* them (backend/main.py).                                                 *)
(*                                                                         *)
(* time.time() is modelled as an integer clock `now` that never runs       *)
(* backwards.  An Optional value is a sequence: <<>> is None, <<x>> is x.  *)
(***************************************************************************)
EXTENDS Integers, Sequences, FiniteSets, TLC

\* ------------------------------------------------------------------ bounds
\* Largest clock value explored.
MaxTime == 3
\* InMemoryRateLimiter(max_requests, window_hours), scaled down from 10 / 24h.
max_requests == 2
window_seconds == 2
\* DuplicateDetector(retention_hours), scaled down from 24h.
retention_seconds == 1
\* Number of distinct byte contents submitted.
NumBytes == 3
\* check_duplicate is explored until it has stored this many entries.
MaxStored == 3
\* Number of requests to /api/extract and /api/export that are served.
MaxServed == 3
\* Largest number of fields in a candidate map given to validate_extraction.
MaxCandidates == 3
\* Largest number of lines in a text given to extract_fields.
MaxLines == 2

\* Requester identities (request.client.host).
Ips == {"1.2.3.4", "5.6.7.8"}

VARIABLES
    now,                 \* time.time()
    requests,            \* InMemoryRateLimiter.requests: ip -> deque of timestamps
    processed_invoices,  \* DuplicateDetector.processed_invoices: invoice_number -> entry
    invoice_hashes,      \* DuplicateDetector.invoice_hashes: content hash -> invoice_number
    client_invoices,     \* DuplicateDetector.client_invoices: ip -> set of invoice_numbers
    handler,             \* the request to /api/extract or /api/export being served
    served,              \* the number of requests /api/extract and /api/export took up
    admitted,            \* history: ip -> every timestamp is_allowed recorded, in order
    stored,              \* history: every entry check_duplicate stored
    lastRL,              \* history: the last call made on the rate limiter itself
                         \* (SpecRL) and what it returned
    lastDD,              \* history: the last call made on the duplicate detector
                         \* itself (SpecDD) and what it returned
    threads,             \* the calls in progress on threads of their own (SpecMT)
    call                 \* the last call of a function of the extraction pipeline
                         \* and its result (SpecModel, SpecText, SpecConf)

rlVars == <<requests, admitted, lastRL>>
ddVars == <<processed_invoices, invoice_hashes, client_invoices, stored, lastDD>>
vars == <<now, requests, processed_invoices, invoice_hashes, client_invoices,
          handler, served, admitted, stored, lastRL, lastDD, threads, call>>

None == <<>>
Some(x) == <<x>>

Max(a, b) == IF a >= b THEN a ELSE b

\* ------------------------------------------------------------ rate limiter
\* while client_requests and client_requests[0] < now - window: popleft()
RECURSIVE PruneRequests(_, _)
PruneRequests(q, t) ==
    IF q # <<>> /\ Head(q) < t - window_seconds
    THEN PruneRequests(Tail(q), t)
    ELSE q

\* Mutant: records the timestamp of a denied call as well.
is_allowed_records_denied(q, t) ==
    LET p == PruneRequests(q, t)
    IN  [ok |-> Len(p) < max_requests, q |-> Append(p, t)]

\* Mutant: admits while the deque holds max_requests entries (> for >=).
is_allowed_off_by_one(q, t) ==
    LET p == PruneRequests(q, t)
    IN  IF Len(p) > max_requests
        THEN [ok |-> FALSE, q |-> p]
        ELSE [ok |-> TRUE, q |-> Append(p, t)]

\* is_allowed on the deque q at time t: the verdict and the deque left behind.
is_allowed(q, t) ==
    LET p == PruneRequests(q, t)
    IN  IF Len(p) >= max_requests
        THEN [ok |-> FALSE, q |-> p]
        ELSE [ok |-> TRUE, q |-> Append(p, t)]

\* Mutant: the accessor also pops a timestamp lying exactly on the window's edge.
RECURSIVE PruneInclusive(_, _)
PruneInclusive(q, t) ==
    IF q # <<>> /\ Head(q) <= t - window_seconds
    THEN PruneInclusive(Tail(q), t)
    ELSE q

get_remaining_requests_pops_edge(q, t) ==
    LET p == PruneInclusive(q, t)
    IN  [value |-> Max(0, max_requests - Len(p)), q |-> p]

\* Mutant: counts without pruning the expired timestamps first.
get_remaining_requests_no_prune(q, t) ==
    [value |-> Max(0, max_requests - Len(q)), q |-> q]

\* get_remaining_requests: the value returned and the (pruned) deque left behind.
get_remaining_requests(q, t) ==
    LET p == PruneRequests(q, t)
    IN  [value |-> Max(0, max_requests - Len(p)), q |-> p]

\* get_reset_time: reads the head of the deque as it is; it takes no clock reading.
get_reset_time(q) ==
    IF q = <<>> THEN None ELSE Some(Head(q) + window_seconds)

NoCallRL == [op |-> "none", ip |-> "", at |-> 0, ok |-> FALSE, value |-> None, pre |-> <<>>]

\* A call of is_allowed; IsAllowedCall also notes it as the last call made.
IsAllowedStep(ip) ==
    LET r == is_allowed(requests[ip], now)
    IN  /\ requests' = [requests EXCEPT ![ip] = r.q]
        /\ admitted' = IF r.ok THEN [admitted EXCEPT ![ip] = Append(@, now)] ELSE admitted

IsAllowedCall(ip) ==
    LET r == is_allowed(requests[ip], now)
    IN  /\ IsAllowedStep(ip)
        /\ lastRL' = [op |-> "is_allowed", ip |-> ip, at |-> now, ok |-> r.ok,
                      value |-> None, pre |-> requests[ip]]

GetRemainingStep(ip) ==
    /\ requests' = [requests EXCEPT ![ip] = get_remaining_requests(requests[ip], now).q]
    /\ admitted' = admitted

GetRemainingCall(ip) ==
    LET r == get_remaining_requests(requests[ip], now)
    IN  /\ GetRemainingStep(ip)
        /\ lastRL' = [op |-> "get_remaining_requests", ip |-> ip, at |-> now, ok |-> FALSE,
                      value |-> Some(r.value), pre |-> requests[ip]]

GetResetTimeCall(ip) ==
    /\ UNCHANGED <<requests, admitted>>
    /\ lastRL' = [op |-> "get_reset_time", ip |-> ip, at |-> now, ok |-> FALSE,
                  value |-> get_reset_time(requests[ip]), pre |-> requests[ip]]

\* ------------------------------------------------------ duplicate detector
\* The byte contents submitted, and the invoice numbers an extraction may carry.
Bytes == 1 .. NumBytes
InvoiceNumbers == {"INV-1", "INV-2"}

\* hashlib.sha256(file_bytes).hexdigest(): a digest, distinct for distinct contents.
generate_content_hash(b) == <<"sha256", b>>

\* dict.get(key): None when the key is absent.
DictGet(d, k) == IF k \in DOMAIN d THEN Some(d[k]) ELSE None

\* Python truthiness of an Optional[str]: None and "" are falsy.
Truthy(opt) == opt # None /\ opt[1] # ""

\* The invoice_data dictionaries handed to check_duplicate: extracted_data with an
\* invoice number, with an empty one, or without the key.
InvoiceData ==
    {[extracted_data |-> [invoice_number |-> n]] : n \in InvoiceNumbers \cup {""}}
        \cup {[extracted_data |-> <<>>]}

Restrict(f, S) == [k \in S |-> f[k]]
Put(f, k, v) == [x \in DOMAIN f \cup {k} |-> IF x = k THEN v ELSE f[x]]

\* The three maps of a DuplicateDetector as one value.
Detector == [processed_invoices |-> processed_invoices,
             invoice_hashes |-> invoice_hashes,
             client_invoices |-> client_invoices]

\* _cleanup_old_entries at time t.
cleanup_old_entries(dd, t) ==
    LET cutoff == t - retention_seconds
        expired == {n \in DOMAIN dd.processed_invoices :
                        dd.processed_invoices[n].timestamp < cutoff}
        gone_hashes == {dd.processed_invoices[n].content_hash : n \in expired}
        touched == {dd.processed_invoices[n].client_ip : n \in expired}
        left(ip) == dd.client_invoices[ip] \
                        {n \in expired : dd.processed_invoices[n].client_ip = ip}
        kept_ips == {ip \in DOMAIN dd.client_invoices : ip \notin touched \/ left(ip) # {}}
    IN  [processed_invoices |->
             Restrict(dd.processed_invoices, DOMAIN dd.processed_invoices \ expired),
         invoice_hashes |->
             Restrict(dd.invoice_hashes, DOMAIN dd.invoice_hashes \ gone_hashes),
         client_invoices |-> [ip \in kept_ips |-> left(ip)]]

\* self.client_invoices[client_ip] on a defaultdict(set): a missing key is created.
TouchClient(dd, ip) ==
    IF ip \in DOMAIN dd.client_invoices THEN dd
    ELSE [dd EXCEPT !.client_invoices = Put(@, ip, {})]

\* The entry stored for a submission.
NewEntry(ip, h, invoice_data, t) ==
    [data |-> invoice_data, timestamp |-> t, client_ip |-> ip, content_hash |-> h]

\* check_duplicate at time t: (is_duplicate, previous_data), the maps left behind
\* and the entry stored, if any.
check_duplicate(dd, client_ip, file_bytes, invoice_data, t) ==
    LET c == cleanup_old_entries(dd, t)
        content_hash == generate_content_hash(file_bytes)
        invoice_number == DictGet(invoice_data.extracted_data, "invoice_number")
        n == invoice_number[1]
        c2 == IF Truthy(invoice_number) THEN TouchClient(c, client_ip) ELSE c
        e == NewEntry(client_ip, content_hash, invoice_data, t)
    IN  IF /\ content_hash \in DOMAIN c.invoice_hashes
           /\ c.invoice_hashes[content_hash] \in DOMAIN c.processed_invoices
        THEN [is_duplicate |-> TRUE,
              previous |-> Some(c.processed_invoices[c.invoice_hashes[content_hash]]),
              dd |-> c, entry |-> None]
        ELSE IF /\ Truthy(invoice_number)
                /\ n \in c2.client_invoices[client_ip]
                /\ n \in DOMAIN c2.processed_invoices
                /\ c2.processed_invoices[n].client_ip = client_ip
        THEN [is_duplicate |-> TRUE, previous |-> Some(c2.processed_invoices[n]),
              dd |-> c2, entry |-> None]
        ELSE IF Truthy(invoice_number)
        THEN [is_duplicate |-> FALSE, previous |-> None,
              dd |-> [processed_invoices |-> Put(c2.processed_invoices, n, e),
                      invoice_hashes |-> Put(c2.invoice_hashes, content_hash, n),
                      client_invoices |->
                          Put(c2.client_invoices, client_ip,
                              c2.client_invoices[client_ip] \cup {n})],
              entry |-> Some(e)]
        ELSE [is_duplicate |-> FALSE, previous |-> None, dd |-> c2, entry |-> None]

NoCallDD == [op |-> "none", ip |-> "", bytes |-> 0, data |-> [extracted_data |-> <<>>],
             at |-> 0, is_duplicate |-> FALSE, previous |-> None, entry |-> None,
             seen |-> {}]

\* A call of check_duplicate; CheckDuplicateCall also notes it as the last call made.
CheckDuplicateStep(ip, b, invoice_data) ==
    LET r == check_duplicate(Detector, ip, b, invoice_data, now)
    IN  /\ processed_invoices' = r.dd.processed_invoices
        /\ invoice_hashes' = r.dd.invoice_hashes
        /\ client_invoices' = r.dd.client_invoices
        /\ stored' = IF r.entry = None THEN stored ELSE stored \cup {r.entry[1]}

CheckDuplicateCall(ip, b, invoice_data) ==
    LET r == check_duplicate(Detector, ip, b, invoice_data, now)
    IN  /\ CheckDuplicateStep(ip, b, invoice_data)
        /\ lastDD' = [op |-> "check_duplicate", ip |-> ip, bytes |-> b,
                      data |-> invoice_data, at |-> now,
                      is_duplicate |-> r.is_duplicate, previous |-> r.previous,
                      entry |-> r.entry, seen |-> stored]

\* --------------------------------------------------------------- endpoints
\* One request to /api/extract or /api/export is followed from its admission to
\* its response.  A handler runs without suspension except at `await file.read()`,
\* so it takes two steps; the clock and /api/stats may act between them.
Formats == {"json", "csv", "excel", "xml"}

IdleHandler == [pc |-> "idle", endpoint |-> "", ip |-> "", bytes |-> 0,
                allowed |-> FALSE, status |-> 0, trace |-> <<>>]

\* extract_invoice_data on the uploaded bytes: it raises (validate_file, OCR) or
\* returns the validated record; the same bytes give the same record.  Content 1
\* is a file that cannot be processed, content 2 a document without an invoice
\* number, the others invoices.
extract_invoice_data(b) ==
    IF b = 1 THEN [raised |-> TRUE, data |-> [extracted_data |-> <<>>]]
    ELSE IF b = 2 THEN [raised |-> FALSE, data |-> [extracted_data |-> <<>>]]
    ELSE [raised |-> FALSE,
          data |-> [extracted_data |->
                      [invoice_number |-> IF b % 2 = 1 THEN "INV-1" ELSE "INV-2"]]]

\* The handler has its response; the upload is no longer needed.
Finished(h, status, calls) ==
    [h EXCEPT !.pc = "done", !.bytes = 0, !.status = status, !.trace = h.trace \o calls]

\* Mutant: the duplicate check is made before the verdict of is_allowed is looked at.
ExtractBeginChecksDuplicateFirst(ip, b) ==
    LET ok == is_allowed(requests[ip], now).ok
        x == extract_invoice_data(b)
    IN  /\ handler.pc = "idle"
        /\ served < MaxServed
        /\ served' = served + 1
        /\ IsAllowedStep(ip)
        /\ CheckDuplicateStep(ip, b, x.data)
        /\ handler' =
              [pc |-> IF ok THEN "reading" ELSE "done", endpoint |-> "extract",
               ip |-> ip, bytes |-> b, allowed |-> ok,
               status |-> IF ok THEN 0 ELSE 429,
               trace |-> <<"is_allowed", "extract_invoice_data", "check_duplicate">>]
        /\ UNCHANGED <<now, lastRL, lastDD, threads, call>>

\* POST /api/extract up to `await file.read()`: the rate limit, then 429 or go on.
ExtractBegin(ip, b) ==
    LET ok == is_allowed(requests[ip], now).ok
    IN  /\ handler.pc = "idle"
        /\ served < MaxServed
        /\ served' = served + 1
        /\ IsAllowedStep(ip)
        /\ handler' =
              [pc |-> IF ok THEN "reading" ELSE "done", endpoint |-> "extract",
               ip |-> ip, bytes |-> IF ok THEN b ELSE 0, allowed |-> ok,
               status |-> IF ok THEN 0 ELSE 429, trace |-> <<"is_allowed">>]
        /\ UNCHANGED <<now, lastRL, threads, call>>
        /\ UNCHANGED ddVars

\* Mutant: a request whose extraction fails gives its slot back.
ExtractFinishRefundsOnError ==
    LET h == handler
        x == extract_invoice_data(h.bytes)
        r == check_duplicate(Detector, h.ip, h.bytes, x.data, now)
    IN  /\ h.pc = "reading" /\ h.endpoint = "extract"
        /\ UNCHANGED <<now, served, threads, call>>
        /\ IF x.raised
           THEN /\ handler' = Finished(h, 500, <<"extract_invoice_data">>)
                /\ requests' = [requests EXCEPT
                                  ![h.ip] = SubSeq(@, 1, Len(@) - 1)]
                /\ UNCHANGED <<admitted, lastRL>>
                /\ UNCHANGED ddVars
           ELSE /\ CheckDuplicateStep(h.ip, h.bytes, x.data)
                /\ UNCHANGED lastDD
                /\ IF r.is_duplicate
                   THEN /\ handler' =
                              Finished(h, 200, <<"extract_invoice_data", "check_duplicate">>)
                        /\ UNCHANGED rlVars
                   ELSE /\ handler' =
                              Finished(h, 200, <<"extract_invoice_data", "check_duplicate",
                                                 "get_remaining_requests">>)
                        /\ GetRemainingStep(h.ip)
                        /\ UNCHANGED lastRL

\* POST /api/extract after the read: extraction, the duplicate check, the response.
ExtractFinish ==
    LET h == handler
        x == extract_invoice_data(h.bytes)
        r == check_duplicate(Detector, h.ip, h.bytes, x.data, now)
    IN  /\ h.pc = "reading" /\ h.endpoint = "extract"
        /\ UNCHANGED <<now, served, threads, call>>
        /\ IF x.raised
           THEN /\ handler' = Finished(h, 500, <<"extract_invoice_data">>)
                /\ UNCHANGED rlVars
                /\ UNCHANGED ddVars
           ELSE /\ CheckDuplicateStep(h.ip, h.bytes, x.data)
                /\ UNCHANGED lastDD
                /\ IF r.is_duplicate
                   THEN /\ handler' =
                              Finished(h, 200, <<"extract_invoice_data", "check_duplicate">>)
                        /\ UNCHANGED rlVars
                   ELSE /\ handler' =
                              Finished(h, 200, <<"extract_invoice_data", "check_duplicate",
                                                 "get_remaining_requests">>)
                        /\ GetRemainingStep(h.ip)
                        /\ UNCHANGED lastRL

\* POST /api/export/{format} up to `await file.read()`: the rate limit, then the
\* format check.
ExportBegin(ip, b, format) ==
    LET ok == is_allowed(requests[ip], now).ok
        known == format \in {"json", "csv", "excel"}
    IN  /\ handler.pc = "idle"
        /\ served < MaxServed
        /\ served' = served + 1
        /\ IsAllowedStep(ip)
        /\ handler' =
              [pc |-> IF ok /\ known THEN "reading" ELSE "done", endpoint |-> "export",
               ip |-> ip, bytes |-> IF ok /\ known THEN b ELSE 0, allowed |-> ok,
               status |-> IF ~ok THEN 429 ELSE IF ~known THEN 400 ELSE 0,
               trace |-> <<"is_allowed">>]
        /\ UNCHANGED <<now, lastRL, threads, call>>
        /\ UNCHANGED ddVars

\* POST /api/export/{format} after the read: extraction and the export.
ExportFinish ==
    LET h == handler
        x == extract_invoice_data(h.bytes)
    IN  /\ h.pc = "reading" /\ h.endpoint = "export"
        /\ handler' = IF x.raised THEN Finished(h, 500, <<"extract_invoice_data">>)
                      ELSE Finished(h, 200, <<"extract_invoice_data", "export">>)
        /\ UNCHANGED <<now, served, threads, call>>
        /\ UNCHANGED rlVars
        /\ UNCHANGED ddVars

\* The response has been sent; the next request may come.
Respond ==
    /\ handler.pc = "done"
    /\ handler' = IdleHandler
    /\ UNCHANGED <<now, served, threads, call>>
    /\ UNCHANGED rlVars
    /\ UNCHANGED ddVars

\* GET /api/stats: get_remaining_requests, then get_reset_time (which changes
\* nothing); the response is not kept.
GetStats(ip) ==
    LET r == get_remaining_requests(requests[ip], now)
    IN  /\ requests' = [requests EXCEPT ![ip] = r.q]
        /\ UNCHANGED <<now, handler, served, admitted, lastRL, threads, call>>
        /\ UNCHANGED ddVars

\* ----------------------------------------------------------------- strings
\* A Python str is a TLA+ string; a character is a string of length one.
CharAt(s, i) == SubSeq(s, i, i)
CharsOf(s) == {CharAt(s, i) : i \in 1 .. Len(s)}

UpperChars == "ABCDEFGHIJKLMNOPQRSTUVWXYZ"
LowerChars == "abcdefghijklmnopqrstuvwxyz"
DigitChars == "0123456789"
Letter == CharsOf(UpperChars) \cup CharsOf(LowerChars)
Digit == CharsOf(DigitChars)
\* The characters str.strip, str.split and the regular expression \s take as space.
Space == {" ", "\n", "\t", "\r", "\f"}

\* The position of the character c in the string s.
IndexIn(c, s) == CHOOSE i \in 1 .. Len(s) : CharAt(s, i) = c

LowerChar(c) == IF c \in CharsOf(UpperChars) THEN CharAt(LowerChars, IndexIn(c, UpperChars)) ELSE c
UpperChar(c) == IF c \in CharsOf(LowerChars) THEN CharAt(UpperChars, IndexIn(c, LowerChars)) ELSE c

\* The smallest and the largest element of a set of integers.
MinOf(S) == CHOOSE x \in S : \A y \in S : x <= y
MaxOf(S) == CHOOSE x \in S : \A y \in S : y <= x
\* The j-th smallest element of a set of integers.
Kth(S, j) == CHOOSE x \in S : Cardinality({y \in S : y <= x}) = j

\* ''.join(parts[lo..hi])
RECURSIVE JoinRange(_, _, _)
JoinRange(parts, lo, hi) ==
    IF lo > hi THEN ""
    ELSE IF lo = hi THEN parts[lo]
    ELSE JoinRange(parts, lo, (lo + hi) \div 2) \o JoinRange(parts, (lo + hi) \div 2 + 1, hi)

Join(parts) == JoinRange(parts, 1, Len(parts))

\* str.lower and str.upper.
StrLower(s) == Join([i \in 1 .. Len(s) |-> LowerChar(CharAt(s, i))])
StrUpper(s) == Join([i \in 1 .. Len(s) |-> UpperChar(CharAt(s, i))])

\* str.title: a letter that follows a letter is lower-cased, any other letter is
\* upper-cased.
StrTitle(s) ==
    Join([i \in 1 .. Len(s) |->
            IF i > 1 /\ CharAt(s, i - 1) \in Letter
            THEN LowerChar(CharAt(s, i)) ELSE UpperChar(CharAt(s, i))])

\* str.strip.
StrStrip(s) ==
    LET keep == {i \in 1 .. Len(s) : CharAt(s, i) \notin Space}
    IN  IF keep = {} THEN "" ELSE SubSeq(s, MinOf(keep), MaxOf(keep))

\* `sub in s` for strings.
Contains(s, sub) ==
    \E i \in 1 .. (Len(s) - Len(sub) + 1) : SubSeq(s, i, i + Len(sub) - 1) = sub

\* ------------------------------------------------------ regular expressions
\* The part of Python's re syntax that InvoiceModel uses, as a syntax tree.  The
\* patterns are applied to lower-cased text under re.IGNORECASE, so a letter of a
\* pattern is written in lower case and a class of letters holds the lower-case
\* letters.
Lit(w) == [t |-> "lit", w |-> w]
Set(S) == [t |-> "set", s |-> S]
Cat(xs) == [t |-> "cat", xs |-> xs]
Alt(xs) == [t |-> "alt", xs |-> xs]
Star(x) == [t |-> "star", x |-> x, greedy |-> TRUE]
LazyStar(x) == [t |-> "star", x |-> x, greedy |-> FALSE]
Plus(x) == Cat(<<x, Star(x)>>)
LazyPlus(x) == Cat(<<x, LazyStar(x)>>)
Opt(x) == Alt(<<x, Cat(<<>>)>>)
Group(x) == Cat(<<[t |-> "open"], x, [t |-> "close"]>>)
AnyChar == [t |-> "any"]
Bol == [t |-> "bol"]
Eol == [t |-> "eol"]

\* x{m,n}
RECURSIVE Rep(_, _, _)
Rep(x, m, n) ==
    IF m > 0 THEN Cat(<<x, Rep(x, m - 1, n - 1)>>)
    ELSE IF n > 0 THEN Opt(Cat(<<x, Rep(x, 0, n - 1)>>))
    ELSE Cat(<<>>)

\* Whether the character c matches x, a class of characters or the dot.
CharMatches(x, c) == IF x.t = "set" THEN c \in x.s ELSE c # "\n"

\* The end of the run of characters matching x that starts at pos: the first
\* position from pos on that holds no such character.
RunEnd(text, x, pos) ==
    MinOf({p \in pos .. Len(text) + 1 :
              p = Len(text) + 1 \/ ~CharMatches(x, CharAt(text, p))})

\* The backtracking matcher of re: `todo` is what is left to match from position
\* pos of text, g the span of group 1 so far.  The result is None, or the end of
\* the match with the span of group 1.  Alternatives are tried in order; a star
\* (always over one character class here) gives back characters one by one from
\* the longest run when greedy, and takes them one by one when lazy.
RECURSIVE MatchAt(_, _, _, _)
MatchAt(text, todo, pos, g) ==
    IF todo = <<>> THEN Some([end |-> pos, open |-> g[1], close |-> g[2]])
    ELSE
      LET h == Head(todo)
          rest == Tail(todo)
      IN  CASE h.t = "lit" ->
                 IF pos + Len(h.w) - 1 <= Len(text) /\ SubSeq(text, pos, pos + Len(h.w) - 1) = h.w
                 THEN MatchAt(text, rest, pos + Len(h.w), g) ELSE None
            [] h.t = "set" ->
                 IF pos <= Len(text) /\ CharAt(text, pos) \in h.s
                 THEN MatchAt(text, rest, pos + 1, g) ELSE None
            [] h.t = "any" ->
                 IF pos <= Len(text) /\ CharAt(text, pos) # "\n"
                 THEN MatchAt(text, rest, pos + 1, g) ELSE None
            [] h.t = "cat" -> MatchAt(text, h.xs \o rest, pos, g)
            [] h.t = "alt" ->
                 IF h.xs = <<>> THEN None
                 ELSE LET first == MatchAt(text, <<Head(h.xs)>> \o rest, pos, g)
                      IN  IF first # None THEN first
                          ELSE MatchAt(text, <<Alt(Tail(h.xs))>> \o rest, pos, g)
            [] h.t = "star" ->
                 LET run == RunEnd(text, h.x, pos)
                     tries == [e \in pos .. run |-> MatchAt(text, rest, e, g)]
                     ends == {e \in pos .. run : tries[e] # None}
                 IN  IF ends = {} THEN None
                     ELSE tries[IF h.greedy THEN MaxOf(ends) ELSE MinOf(ends)]
            [] h.t = "open" -> MatchAt(text, rest, pos, <<pos, g[2]>>)
            [] h.t = "close" -> MatchAt(text, rest, pos, <<g[1], pos>>)
            [] h.t = "bol" ->
                 IF pos = 1 \/ CharAt(text, pos - 1) = "\n"
                 THEN MatchAt(text, rest, pos, g) ELSE None
            [] h.t = "eol" ->
                 IF pos = Len(text) + 1 \/ CharAt(text, pos) = "\n"
                 THEN MatchAt(text, rest, pos, g) ELSE None

\* re.search(pattern, text): the match at the leftmost position that has one.
re_search(pattern, text) ==
    LET tries == [p \in 1 .. Len(text) + 1 |-> MatchAt(text, <<pattern>>, p, <<0, 0>>)]
        starts == {p \in 1 .. Len(text) + 1 : tries[p] # None}
    IN  IF starts = {} THEN None ELSE tries[MinOf(starts)]

\* re.match(pattern, text): a match at the start of text.
re_match(pattern, text) == MatchAt(text, <<pattern>>, 1, <<0, 0>>)

\* match.group(1) of a match in text.
MatchGroup1(text, m) == SubSeq(text, m[1].open, m[1].close - 1)

\* The number of capture groups of a pattern.
RECURSIVE Groups(_)
RECURSIVE GroupsOfAll(_)
Groups(x) ==
    CASE x.t = "open" -> 1
      [] x.t \in {"cat", "alt"} -> GroupsOfAll(x.xs)
      [] x.t = "star" -> Groups(x.x)
      [] OTHER -> 0

GroupsOfAll(xs) == IF xs = <<>> THEN 0 ELSE Groups(Head(xs)) + GroupsOfAll(Tail(xs))

\* ----------------------------------------------------------- invoice model
\* Pieces the patterns of InvoiceModel share.
Ws == Star(Set(Space))
Dg == Set(Digit)
AlnumDash == Set(Letter \cup Digit \cup {"-"})
NameChars == Letter \cup Digit \cup Space \cup {"&", ".", ",", "-"}
OptLit(w) == Opt(Lit(w))
Words(ws) == Alt([i \in 1 .. Len(ws) |-> Lit(ws[i])])
\* ([0-9,]+\.?\d*)
AmountGroup == Group(Cat(<<Plus(Set(Digit \cup {","})), OptLit("."), Star(Dg)>>))
\* \s*:?\s*\$? followed by the amount
ColonAmount == Cat(<<Ws, OptLit(":"), Ws, OptLit("$"), AmountGroup>>)
\* (\d{1,2}[\/\-]\d{1,2}[\/\-]\d{2,4})
DateShape == Cat(<<Rep(Dg, 1, 2), Set({"/", "-"}), Rep(Dg, 1, 2), Set({"/", "-"}), Rep(Dg, 2, 4)>>)
\* \s*#?\s*:?\s*([A-Z0-9\-]+)
HashColonId == Cat(<<Ws, OptLit("#"), Ws, OptLit(":"), Ws, Group(Plus(AlnumDash))>>)

\* InvoiceModel.patterns: the fields in the order of the dictionary, each with its
\* patterns in priority order.
Patterns == <<
  [field |-> "vendor_name", patterns |-> <<
     Cat(<<Words(<<"from", "vendor", "company", "bill from", "sold by">>),
           Star(Set({":"} \cup Space)), Group(LazyPlus(Set(NameChars))),
           Words(<<"\n", "address", "phone", "email", "tax">>)>>),
     Cat(<<Bol, Group(LazyPlus(Set(NameChars))),
           Alt(<<Cat(<<Lit("\n"), Star(AnyChar), Lit("address")>>), Lit("phone"), Lit("email")>>)>>),
     Group(Cat(<<Set(Letter), Plus(Set(Letter \cup Space \cup {"&", ".", ",", "-"})),
                 Words(<<"inc", "llc", "ltd", "corp", "company">>)>>)) >>],
  [field |-> "vendor_address", patterns |-> <<
     Cat(<<Words(<<"address", "addr">>), Star(Set({":"} \cup Space)),
           Group(LazyPlus(Set(Letter \cup Digit \cup Space \cup {",", ".", "-", "#"}))),
           Words(<<"\n\n", "phone", "email", "tax", "invoice">>)>>),
     Group(Cat(<<Plus(Dg), Plus(Set(Space)),
                 Plus(Set(Letter \cup Space \cup {",", ".", "-"})), Rep(Dg, 5, 5)>>)) >>],
  [field |-> "vendor_tax_id", patterns |-> <<
     Cat(<<Alt(<<Cat(<<Lit("tax"), Ws, Lit("id")>>), Lit("gst"), Lit("vat"), Lit("ein")>>),
           Star(Set({":", "#"} \cup Space)), Group(Plus(AlnumDash))>>),
     Cat(<<Alt(<<Cat(<<Lit("federal"), Ws, Lit("id")>>), Cat(<<Lit("employer"), Ws, Lit("id")>>)>>),
           Star(Set({":", "#"} \cup Space)), Group(Plus(AlnumDash))>>) >>],
  [field |-> "vendor_contact", patterns |-> <<
     Cat(<<Words(<<"phone", "tel", "contact">>), Star(Set({":"} \cup Space)),
           Group(Plus(Set(Digit \cup Space \cup {"-", "(", ")", "+"})))>>),
     Cat(<<Words(<<"email", "e-mail">>), Star(Set({":"} \cup Space)),
           Group(Plus(Set(Letter \cup Digit \cup {"@", ".", "-", "_"})))>>) >>],
  [field |-> "invoice_number", patterns |-> <<
     Cat(<<Lit("invoice"), HashColonId>>),
     Cat(<<Lit("inv"), HashColonId>>),
     Cat(<<Lit("#"), Ws, Group(Plus(AlnumDash))>>),
     Cat(<<Lit("invoice"), Ws, Lit("number"), Star(Set({":"} \cup Space)),
           Group(Plus(AlnumDash))>>) >>],
  [field |-> "invoice_date", patterns |-> <<
     Cat(<<Opt(Cat(<<Lit("invoice"), Ws>>)), Lit("date"), Ws, OptLit(":"), Ws,
           Group(DateShape)>>),
     Cat(<<Opt(Cat(<<Lit("invoice"), Ws>>)), Lit("date"), Ws, OptLit(":"), Ws,
           Group(Cat(<<Plus(Set(Letter)), Plus(Set(Space)), Rep(Dg, 1, 2), OptLit(","),
                       Plus(Set(Space)), Rep(Dg, 4, 4)>>))>>),
     Group(DateShape) >>],
  [field |-> "due_date", patterns |-> <<
     Cat(<<Lit("due"), Ws, Lit("date"), Ws, OptLit(":"), Ws, Group(DateShape)>>),
     Cat(<<Lit("payment"), Ws, Lit("due"), Ws, OptLit(":"), Ws, Group(DateShape)>>) >>],
  [field |-> "po_number", patterns |-> <<
     Cat(<<Alt(<<Lit("po"), Cat(<<Lit("purchase"), Ws, Lit("order")>>)>>), HashColonId>>),
     Cat(<<Lit("p"), OptLit("."), Lit("o"), OptLit("."), HashColonId>>) >>],
  [field |-> "payment_terms", patterns |-> <<
     Cat(<<Alt(<<Cat(<<Lit("payment"), Ws, Lit("terms")>>), Lit("terms")>>),
           Star(Set({":"} \cup Space)),
           Group(Alt(<<Cat(<<Lit("net"), Ws, Plus(Dg)>>),
                       Cat(<<Lit("due"), Ws, Lit("on"), Ws, Lit("receipt")>>),
                       Plus(Set(Letter \cup Digit \cup Space))>>))>>),
     Group(Cat(<<Lit("net"), Ws, Plus(Dg)>>)) >>],
  [field |-> "subtotal", patterns |-> <<
     Cat(<<Lit("subtotal"), ColonAmount>>),
     Cat(<<Lit("sub"), Ws, Lit("total"), ColonAmount>>) >>],
  [field |-> "tax_amount", patterns |-> <<
     Cat(<<Lit("tax"), Ws, OptLit("amount"), ColonAmount>>),
     Cat(<<Alt(<<Cat(<<Lit("sales"), Ws, Lit("tax")>>), Lit("vat")>>), ColonAmount>>) >>],
  [field |-> "tax_rate", patterns |-> <<
     Cat(<<Lit("tax"), Ws, OptLit("rate"), Ws, OptLit(":"), Ws,
           Group(Plus(Set(Digit \cup {"."}))), Lit("%")>>),
     Cat(<<Alt(<<Cat(<<Lit("sales"), Ws, Lit("tax")>>), Lit("vat")>>), Ws, OptLit("rate"),
           Ws, OptLit(":"), Ws, Group(Plus(Set(Digit \cup {"."}))), Lit("%")>>) >>],
  [field |-> "discount", patterns |-> <<
     Cat(<<Lit("discount"), ColonAmount>>),
     Cat(<<Lit("less"), ColonAmount>>) >>],
  [field |-> "shipping", patterns |-> <<
     Cat(<<Words(<<"shipping", "freight", "delivery">>), ColonAmount>>),
     Cat(<<Words(<<"handling", "ship">>), ColonAmount>>) >>],
  [field |-> "total", patterns |-> <<
     Cat(<<Lit("total"), Ws, OptLit("amount"), Ws, OptLit("due"), ColonAmount>>),
     Cat(<<Lit("amount"), Ws, Lit("due"), ColonAmount>>),
     Cat(<<Lit("grand"), Ws, Lit("total"), ColonAmount>>),
     Cat(<<Lit("$"), AmountGroup>>) >>],
  [field |-> "currency", patterns |-> <<
     Group(Words(<<"$", "usd", "eur", "gbp", "cad">>)),
     Cat(<<Lit("currency"), Star(Set({":"} \cup Space)), Group(Rep(Set(Letter), 3, 3))>>) >>],
  [field |-> "bank_details", patterns |-> <<
     Cat(<<Words(<<"bank", "routing", "account">>), Ws, Opt(Words(<<"number", "#">>)), Ws,
           OptLit(":"), Ws, Group(Plus(Set(Digit \cup {"-"})))>>),
     Cat(<<Words(<<"swift", "iban">>), Ws, OptLit(":"), Ws,
           Group(Plus(Set(Letter \cup Digit)))>>) >>],
  [field |-> "notes", patterns |-> <<
     Cat(<<Words(<<"notes", "comments", "memo">>), Star(Set({":"} \cup Space)),
           Group(LazyPlus(Set(Letter \cup Digit \cup Space \cup {".", ",", "-"}))),
           Alt(<<Lit("\n\n"), Eol>>)>>) >>],
  [field |-> "payment_method", patterns |-> <<
     Cat(<<Alt(<<Cat(<<Lit("payment"), Ws, Lit("method")>>), Cat(<<Lit("pay"), Ws, Lit("via")>>)>>),
           Star(Set({":"} \cup Space)), Group(Plus(Set(Letter \cup Space)))>>),
     Words(<<"check", "cash", "credit", "wire", "ach">>) >>]
>>

\* ^\$?[0-9,]+\.?\d*$ : the shape of a numeric token of a line item.
NumberToken ==
    Cat(<<Bol, OptLit("$"), Plus(Set(Digit \cup {","})), OptLit("."), Star(Dg), Eol>>)

\* str.split(sep) for a separator of one character.
SplitOn(s, sep) ==
    LET at == {i \in 1 .. Len(s) : CharAt(s, i) = sep}
        n == Cardinality(at)
        from(j) == IF j = 1 THEN 1 ELSE Kth(at, j - 1) + 1
        to(j) == IF j = n + 1 THEN Len(s) ELSE Kth(at, j) - 1
    IN  [j \in 1 .. n + 1 |-> SubSeq(s, from(j), to(j))]

\* str.split(): the maximal runs of characters that are not space.
SplitSpace(s) ==
    LET starts == {i \in 1 .. Len(s) :
                      CharAt(s, i) \notin Space /\ (i = 1 \/ CharAt(s, i - 1) \in Space)}
        stop(i) == MinOf({j \in i .. Len(s) : j = Len(s) \/ CharAt(s, j + 1) \in Space})
    IN  [j \in 1 .. Cardinality(starts) |-> SubSeq(s, Kth(starts, j), stop(Kth(starts, j)))]

\* ' '.join(parts)
JoinSpace(parts) ==
    Join([i \in 1 .. (2 * Len(parts) - 1) |-> IF i % 2 = 1 THEN parts[(i + 1) \div 2] ELSE " "])

\* A float is modelled exactly as the decimal n / 10^k, with no trailing zero in n
\* when k > 0 (binary rounding is not modelled).
RECURSIVE Pow10(_)
Pow10(k) == IF k = 0 THEN 1 ELSE 10 * Pow10(k - 1)

RECURSIVE Num(_, _)
Num(n, k) == IF k > 0 /\ n % 10 = 0 THEN Num(n \div 10, k - 1) ELSE [n |-> n, k |-> k]

Zero == Num(0, 0)
NumAdd(a, b) ==
    LET k == Max(a.k, b.k)
    IN  Num(a.n * Pow10(k - a.k) + b.n * Pow10(k - b.k), k)
NumNeg(a) == [n |-> 0 - a.n, k |-> a.k]
NumSub(a, b) == NumAdd(a, NumNeg(b))
NumAbs(a) == IF a.n < 0 THEN NumNeg(a) ELSE a
\* a < b
NumLess(a, b) == NumSub(a, b).n < 0
\* 0.01
Hundredth == Num(1, 2)

\* The value of a string of digits.
RECURSIVE DigitsValue(_)
DigitsValue(s) ==
    IF s = "" THEN 0
    ELSE 10 * DigitsValue(SubSeq(s, 1, Len(s) - 1)) + (IndexIn(CharAt(s, Len(s)), DigitChars) - 1)

IsDigits(s) == \A i \in 1 .. Len(s) : CharAt(s, i) \in Digit

\* float(s) for the decimal notation: spaces around, a sign, digits with at most
\* one point and at least one digit; None stands for ValueError.  (Exponents,
\* inf, nan and the underscore of digit groups are not modelled.)
ParseUnsigned(s) ==
    LET dots == {i \in 1 .. Len(s) : CharAt(s, i) = "."}
        d == CHOOSE i \in dots : TRUE
        whole == SubSeq(s, 1, d - 1)
        frac == SubSeq(s, d + 1, Len(s))
    IN  IF dots = {}
        THEN (IF s # "" /\ IsDigits(s) THEN Some(Num(DigitsValue(s), 0)) ELSE None)
        ELSE IF /\ Cardinality(dots) = 1
                /\ IsDigits(whole) /\ IsDigits(frac)
                /\ whole \o frac # ""
        THEN Some(Num(DigitsValue(whole \o frac), Len(frac)))
        ELSE None

float(s) ==
    LET t == StrStrip(s)
        signed == t # "" /\ Head(t) \in {"+", "-"}
        u == ParseUnsigned(IF signed THEN Tail(t) ELSE t)
    IN  IF u # None /\ signed /\ Head(t) = "-" THEN Some(NumNeg(u[1])) ELSE u

\* re.sub(r'[\$,]', '', value)
RemoveCurrency(s) ==
    Join([i \in 1 .. Len(s) |-> IF CharAt(s, i) \in {"$", ","} THEN "" ELSE CharAt(s, i)])

\* InvoiceModel.clean_number of a string: the number, or None.
clean_number(value) == IF value = "" THEN None ELSE float(RemoveCurrency(value))

\* The tokens that make a line a header.
HeaderTokens == {"description", "qty", "quantity", "price", "total", "amount"}

\* The line item of one line of the text, if the line qualifies.
LineItemOf(line) ==
    LET parts == SplitSpace(line)
        numbers == SelectSeq(parts, LAMBDA p : re_match(NumberToken, p) # None)
    IN  IF \/ StrStrip(line) = ""
           \/ \E header \in HeaderTokens : Contains(StrLower(line), header)
        THEN None
        ELSE IF Len(parts) >= 3 /\ Len(numbers) >= 2
        THEN Some([description |-> JoinSpace(SubSeq(parts, 1, Len(parts) - Len(numbers))),
                   quantity |-> clean_number(numbers[1]),
                   unit_price |-> clean_number(numbers[Len(numbers) - 1]),
                   line_total |-> clean_number(numbers[Len(numbers)])])
        ELSE None

RECURSIVE LineItemsOf(_)
LineItemsOf(lines) ==
    IF lines = <<>> THEN <<>> ELSE LineItemOf(Head(lines)) \o LineItemsOf(Tail(lines))

\* Mutant: every qualifying line is returned.
extract_line_items_uncapped(text) == LineItemsOf(SplitOn(text, "\n"))

\* InvoiceModel.extract_line_items: at most the first ten qualifying lines.
extract_line_items(text) ==
    LET items == LineItemsOf(SplitOn(text, "\n"))
    IN  SubSeq(items, 1, IF Len(items) < 10 THEN Len(items) ELSE 10)

\* The patterns of one field tried in order on the lower-cased text: None when no
\* pattern matches; else the stripped group 1 of the first match, or IndexError
\* when that pattern has no group.
RECURSIVE FirstMatch(_, _)
FirstMatch(text_lower, patterns) ==
    IF patterns = <<>> THEN [matched |-> FALSE, raised |-> FALSE, value |-> ""]
    ELSE LET match == re_search(Head(patterns), text_lower)
         IN  IF match = None THEN FirstMatch(text_lower, Tail(patterns))
             ELSE IF Groups(Head(patterns)) < 1
             THEN [matched |-> TRUE, raised |-> TRUE, value |-> ""]
             ELSE [matched |-> TRUE, raised |-> FALSE,
                   value |-> StrStrip(MatchGroup1(text_lower, match))]

\* Mutant: the line_items key is set even when no line item was found.
extract_fields_always_line_items(text) ==
    LET text_lower == StrLower(text)
        found == [i \in 1 .. Len(Patterns) |-> FirstMatch(text_lower, Patterns[i].patterns)]
        index(field) == CHOOSE i \in 1 .. Len(Patterns) : Patterns[i].field = field
        matched == {Patterns[i].field : i \in {j \in 1 .. Len(Patterns) : found[j].matched}}
        fields == [field \in matched |-> found[index(field)].value]
    IN  IF \E i \in 1 .. Len(Patterns) : found[i].raised
        THEN [raised |-> TRUE, extracted |-> <<>>]
        ELSE [raised |-> FALSE, extracted |-> Put(fields, "line_items", extract_line_items(text))]

\* InvoiceModel.extract_fields(text): the dictionary of candidates, or the
\* exception that the loop over the fields ran into.
extract_fields(text) ==
    LET text_lower == StrLower(text)
        found == [i \in 1 .. Len(Patterns) |-> FirstMatch(text_lower, Patterns[i].patterns)]
        index(field) == CHOOSE i \in 1 .. Len(Patterns) : Patterns[i].field = field
        matched == {Patterns[i].field : i \in {j \in 1 .. Len(Patterns) : found[j].matched}}
        fields == [field \in matched |-> found[index(field)].value]
        line_items == extract_line_items(text)
    IN  IF \E i \in 1 .. Len(Patterns) : found[i].raised
        THEN [raised |-> TRUE, extracted |-> <<>>]
        ELSE [raised |-> FALSE,
              extracted |-> IF line_items # <<>> THEN Put(fields, "line_items", line_items)
                            ELSE fields]

\* ------------------------------------------------ validation and confidence
\* A confidence is a number of hundredths: 90 is 0.9.
AmountFields == {"subtotal", "tax_amount", "discount", "shipping", "total"}
DateFields == {"invoice_date", "due_date"}
required_fields == <<"invoice_number", "invoice_date", "total", "vendor_name">>

\* Mutant: an empty candidate is normalised like any other.
validate_field_keeps_empty(field, value) ==
    IF field \in AmountFields
    THEN LET cleaned == clean_number(value)
         IN  [cleaned |-> cleaned, confidence |-> IF cleaned # None THEN 90 ELSE 0]
    ELSE IF field \in DateFields
    THEN [cleaned |-> Some(value),
          confidence |-> IF re_match(DateShape, value) # None THEN 80 ELSE 50]
    ELSE IF field = "invoice_number" THEN [cleaned |-> Some(StrUpper(value)), confidence |-> 90]
    ELSE IF field = "vendor_name" THEN [cleaned |-> Some(StrTitle(value)), confidence |-> 70]
    ELSE [cleaned |-> Some(value), confidence |-> 60]

\* InvoiceModel.validate_field for a candidate string: (cleaned_value, confidence),
\* the cleaned value being None when the field is to be dropped.  (The except
\* branch, confidence 0.3, is taken only for a value that is not a string.)
validate_field(field, value) ==
    IF value = "" THEN [cleaned |-> None, confidence |-> 0]
    ELSE IF field \in AmountFields
    THEN LET cleaned == clean_number(value)
         IN  [cleaned |-> cleaned, confidence |-> IF cleaned # None THEN 90 ELSE 0]
    ELSE IF field \in DateFields
    THEN [cleaned |-> Some(value),
          confidence |-> IF re_match(DateShape, value) # None THEN 80 ELSE 50]
    ELSE IF field = "invoice_number" THEN [cleaned |-> Some(StrUpper(value)), confidence |-> 90]
    ELSE IF field = "vendor_name" THEN [cleaned |-> Some(StrTitle(value)), confidence |-> 70]
    ELSE [cleaned |-> Some(value), confidence |-> 60]

\* data.get(field, 0) or 0, for an amount.
AmountOr0(data, field) == IF field \in DOMAIN data THEN data[field] ELSE Zero

\* sum(item.get('line_total', 0) or 0 for item in line_items)
RECURSIVE LineTotalSum(_)
LineTotalSum(line_items) ==
    IF line_items = <<>> THEN Zero
    ELSE NumAdd(IF Head(line_items).line_total = None THEN Zero
                ELSE Head(line_items).line_total[1],
                LineTotalSum(Tail(line_items)))

\* Mutant: calculations_correct also requires the line items to add up.
validate_mathematics_gated_by_line_items(data) ==
    LET calculated_total ==
            NumSub(NumAdd(NumAdd(AmountOr0(data, "subtotal"), AmountOr0(data, "tax_amount")),
                          AmountOr0(data, "shipping")),
                   AmountOr0(data, "discount"))
        subtotal_tax_total_match ==
            NumLess(NumAbs(NumSub(calculated_total, AmountOr0(data, "total"))), Hundredth)
        line_items == IF "line_items" \in DOMAIN data THEN data["line_items"] ELSE <<>>
        line_items_sum_match ==
            /\ line_items # <<>>
            /\ NumLess(NumAbs(NumSub(LineTotalSum(line_items), AmountOr0(data, "subtotal"))),
                       Hundredth)
    IN  [subtotal_tax_total_match |-> subtotal_tax_total_match,
         line_items_sum_match |-> line_items_sum_match,
         calculations_correct |-> subtotal_tax_total_match /\ line_items_sum_match]

\* InvoiceModel.validate_mathematics.
validate_mathematics(data) ==
    LET subtotal == AmountOr0(data, "subtotal")
        tax_amount == AmountOr0(data, "tax_amount")
        total == AmountOr0(data, "total")
        discount == AmountOr0(data, "discount")
        shipping == AmountOr0(data, "shipping")
        calculated_total == NumSub(NumAdd(NumAdd(subtotal, tax_amount), shipping), discount)
        subtotal_tax_total_match == NumLess(NumAbs(NumSub(calculated_total, total)), Hundredth)
        line_items == IF "line_items" \in DOMAIN data THEN data["line_items"] ELSE <<>>
    IN  [subtotal_tax_total_match |-> subtotal_tax_total_match,
         line_items_sum_match |->
             /\ line_items # <<>>
             /\ NumLess(NumAbs(NumSub(LineTotalSum(line_items), subtotal)), Hundredth),
         calculations_correct |-> subtotal_tax_total_match]

\* sum(field_confidence.values())
RECURSIVE SumOver(_, _)
SumOver(f, keys) ==
    IF keys = {} THEN 0
    ELSE LET k == CHOOSE k \in keys : TRUE IN f[k] + SumOver(f, keys \ {k})

\* InvoiceModel.calculate_overall_confidence: round(min(1.0, base + boost -
\* penalty), 2) in hundredths.  The value is a set: where the exact value lies
\* halfway between two hundredths the binary float decides which one the code
\* returns, and the model allows both.
calculate_overall_confidence(field_confidence, math_validation) ==
    LET count == Cardinality(DOMAIN field_confidence)
        math_boost == IF math_validation.calculations_correct THEN 10 ELSE 0
        missing_penalty ==
            5 * Cardinality({i \in 1 .. Len(required_fields) :
                                required_fields[i] \notin DOMAIN field_confidence})
        \* count * (base_confidence + math_boost - missing_penalty)
        scaled == SumOver(field_confidence, DOMAIN field_confidence)
                    + count * (math_boost - missing_penalty)
    IN  IF count = 0 THEN {0}
        ELSE IF scaled >= 100 * count THEN {100}
        ELSE IF 2 * (scaled % count) < count THEN {scaled \div count}
        ELSE IF 2 * (scaled % count) > count THEN {scaled \div count + 1}
        ELSE {scaled \div count, scaled \div count + 1}

\* Python truthiness of the value a validated record holds for a field: a number
\* other than 0, a string or a list other than the empty one.
TruthyValue(field, value) ==
    IF field \in AmountFields THEN value.n # 0
    ELSE IF field = "line_items" THEN value # <<>>
    ELSE value # ""

\* Mutant: a field counts as missing only when the record has no such key.
get_missing_required_fields_absent_only(data) ==
    SelectSeq(required_fields, LAMBDA field : field \notin DOMAIN data)

\* InvoiceModel.get_missing_required_fields.
get_missing_required_fields(data) ==
    SelectSeq(required_fields,
              LAMBDA field : field \notin DOMAIN data \/ ~TruthyValue(field, data[field]))

\* Mutant: a dropped field keeps its entry, 0.0, in the confidence map.
validate_extraction_keeps_dropped(data) ==
    LET checked == [field \in DOMAIN data \ {"line_items"} |-> validate_field(field, data[field])]
        kept == {field \in DOMAIN checked : checked[field].cleaned # None}
        validated == [field \in kept \cup (DOMAIN data \cap {"line_items"}) |->
                        IF field = "line_items" THEN data[field] ELSE checked[field].cleaned[1]]
        field_confidence ==
            [field \in DOMAIN data |->
                IF field = "line_items" THEN (IF data[field] # <<>> THEN 80 ELSE 0)
                ELSE checked[field].confidence]
        math_validation == validate_mathematics(validated)
    IN  {[extracted_data |-> validated,
          field_confidence |-> field_confidence,
          math_validation |-> math_validation,
          overall_confidence |-> overall_confidence,
          missing_required_fields |-> get_missing_required_fields(validated)] :
            overall_confidence \in calculate_overall_confidence(field_confidence, math_validation)}

\* InvoiceModel.validate_extraction(data): the results it may return (they differ
\* in the rounding of overall_confidence only).
validate_extraction(data) ==
    LET checked == [field \in DOMAIN data \ {"line_items"} |-> validate_field(field, data[field])]
        kept == {field \in DOMAIN checked : checked[field].cleaned # None}
                    \cup (DOMAIN data \cap {"line_items"})
        validated == [field \in kept |->
                        IF field = "line_items" THEN data[field] ELSE checked[field].cleaned[1]]
        field_confidence ==
            [field \in kept |->
                IF field = "line_items" THEN (IF data[field] # <<>> THEN 80 ELSE 0)
                ELSE checked[field].confidence]
        math_validation == validate_mathematics(validated)
    IN  {[extracted_data |-> validated,
          field_confidence |-> field_confidence,
          math_validation |-> math_validation,
          overall_confidence |-> overall_confidence,
          missing_required_fields |-> get_missing_required_fields(validated)] :
            overall_confidence \in calculate_overall_confidence(field_confidence, math_validation)}

\* ----------------------------------------------------------------- threads
\* The threads on which calls of the rate limiter and of the duplicate detector
\* run when they are not serialised by the event loop.
Threads == {"t1", "t2"}

IdleThread == [pc |-> "idle", op |-> ""]

\* is_allowed, lines 21-22: the clock is read and the deque of the identity taken.
MTBeginIsAllowed(t, ip) ==
    /\ threads[t].pc = "idle"
    /\ served < MaxServed
    /\ served' = served + 1
    /\ threads' = [threads EXCEPT ![t] =
                      [pc |-> "prune", op |-> "is_allowed", ip |-> ip, now |-> now]]
    /\ UNCHANGED <<now, handler, call>>
    /\ UNCHANGED rlVars
    /\ UNCHANGED ddVars

\* is_allowed, lines 25-26: one turn of the prune loop.
MTPrune(t) ==
    LET th == threads[t]
        q == requests[th.ip]
    IN  /\ th.pc = "prune"
        /\ IF q # <<>> /\ Head(q) < th.now - window_seconds
           THEN /\ requests' = [requests EXCEPT ![th.ip] = Tail(q)]
                /\ threads' = threads
           ELSE /\ requests' = requests
                /\ threads' = [threads EXCEPT ![t].pc = "check"]
        /\ UNCHANGED <<now, handler, served, admitted, lastRL, call>>
        /\ UNCHANGED ddVars

\* is_allowed, lines 29-30: the count check; Denied returns at once.
MTCheck(t) ==
    LET th == threads[t]
    IN  /\ th.pc = "check"
        /\ threads' = [threads EXCEPT ![t] =
                          IF Len(requests[th.ip]) >= max_requests
                          THEN IdleThread ELSE [th EXCEPT !.pc = "append"]]
        /\ UNCHANGED <<now, handler, served, call>>
        /\ UNCHANGED rlVars
        /\ UNCHANGED ddVars

\* is_allowed, lines 33-34: the timestamp read at the start is appended.
MTAppend(t) ==
    LET th == threads[t]
    IN  /\ th.pc = "append"
        /\ requests' = [requests EXCEPT ![th.ip] = Append(@, th.now)]
        /\ admitted' = [admitted EXCEPT ![th.ip] = Append(@, th.now)]
        /\ threads' = [threads EXCEPT ![t] = IdleThread]
        /\ UNCHANGED <<now, handler, served, lastRL, call>>
        /\ UNCHANGED ddVars

\* check_duplicate, lines 30-33: the cleanup, the hash and the business key.
MTBeginCheckDuplicate(t, ip, b, invoice_data) ==
    LET c == cleanup_old_entries(Detector, now)
    IN  /\ threads[t].pc = "idle"
        /\ served < MaxServed
        /\ served' = served + 1
        /\ processed_invoices' = c.processed_invoices
        /\ invoice_hashes' = c.invoice_hashes
        /\ client_invoices' = c.client_invoices
        /\ threads' = [threads EXCEPT ![t] =
              [pc |-> "hash_lookup", op |-> "check_duplicate", ip |-> ip,
               data |-> invoice_data, content_hash |-> generate_content_hash(b),
               invoice_number |-> DictGet(invoice_data.extracted_data, "invoice_number")]]
        /\ UNCHANGED <<now, handler, stored, lastDD, call>>
        /\ UNCHANGED rlVars

\* check_duplicate, lines 36-39: the lookup by content hash.
MTHashLookup(t) ==
    LET th == threads[t]
    IN  /\ th.pc = "hash_lookup"
        /\ threads' = [threads EXCEPT ![t] =
              IF /\ th.content_hash \in DOMAIN invoice_hashes
                 /\ invoice_hashes[th.content_hash] \in DOMAIN processed_invoices
              THEN IdleThread ELSE [th EXCEPT !.pc = "key_lookup"]]
        /\ UNCHANGED <<now, handler, served, call>>
        /\ UNCHANGED rlVars
        /\ UNCHANGED ddVars

\* check_duplicate, lines 42-49: the lookup by business key of the identity, and
\* whether there is a key to store under.
MTKeyLookup(t) ==
    LET th == threads[t]
        n == th.invoice_number[1]
        c == IF Truthy(th.invoice_number) THEN TouchClient(Detector, th.ip) ELSE Detector
        found == /\ Truthy(th.invoice_number)
                 /\ n \in c.client_invoices[th.ip]
                 /\ n \in DOMAIN c.processed_invoices
                 /\ c.processed_invoices[n].client_ip = th.ip
    IN  /\ th.pc = "key_lookup"
        /\ client_invoices' = c.client_invoices
        /\ threads' = [threads EXCEPT ![t] =
              IF found \/ ~Truthy(th.invoice_number)
              THEN IdleThread ELSE [th EXCEPT !.pc = "store_invoice"]]
        /\ UNCHANGED <<now, handler, served, processed_invoices, invoice_hashes,
                       stored, lastDD, call>>
        /\ UNCHANGED rlVars

\* check_duplicate, lines 50-55: the entry is put into processed_invoices.
MTStoreInvoice(t) ==
    LET th == threads[t]
        e == [data |-> th.data, timestamp |-> now, client_ip |-> th.ip,
              content_hash |-> th.content_hash]
    IN  /\ th.pc = "store_invoice"
        /\ processed_invoices' = Put(processed_invoices, th.invoice_number[1], e)
        /\ threads' = [threads EXCEPT ![t].pc = "store_hash"]
        /\ UNCHANGED <<now, handler, served, invoice_hashes, client_invoices,
                       stored, lastDD, call>>
        /\ UNCHANGED rlVars

\* check_duplicate, line 56: the content hash is indexed.
MTStoreHash(t) ==
    LET th == threads[t]
    IN  /\ th.pc = "store_hash"
        /\ invoice_hashes' = Put(invoice_hashes, th.content_hash, th.invoice_number[1])
        /\ threads' = [threads EXCEPT ![t].pc = "store_client"]
        /\ UNCHANGED <<now, handler, served, processed_invoices, client_invoices,
                       stored, lastDD, call>>
        /\ UNCHANGED rlVars

\* check_duplicate, lines 57-59: the key is added to the identity's set.
MTStoreClient(t) ==
    LET th == threads[t]
        c == TouchClient(Detector, th.ip)
    IN  /\ th.pc = "store_client"
        /\ client_invoices' = Put(c.client_invoices, th.ip,
                                  c.client_invoices[th.ip] \cup {th.invoice_number[1]})
        /\ threads' = [threads EXCEPT ![t] = IdleThread]
        /\ UNCHANGED <<now, handler, served, processed_invoices, invoice_hashes,
                       stored, lastDD, call>>
        /\ UNCHANGED rlVars

\* No function of the extraction pipeline has been called yet.
NoCall == [op |-> "none"]

\* field_weights of calculate_confidence, in hundredths.
field_weights ==
    [invoice_number |-> 20, invoice_date |-> 15, total |-> 20, vendor_name |-> 15,
     subtotal |-> 10, tax_amount |-> 10, line_items |-> 10]

\* calculate_confidence(data) of utils/extractor.py, in hundredths: the weights
\* of the weighted fields that data holds with a truthy value, over the sum of
\* all the weights.
calculate_confidence(data) ==
    LET present == {field \in DOMAIN field_weights :
                        field \in DOMAIN data /\ TruthyValue(field, data[field])}
        weighted_score == SumOver(field_weights, present)
        total_weight == SumOver(field_weights, DOMAIN field_weights)
    IN  IF DOMAIN data = {} THEN 0
        ELSE IF total_weight > 0 THEN (100 * weighted_score) \div total_weight ELSE 0

\* --------------------------------------------- calls of the pipeline functions
\* Values a candidate map may hold for a field: what extract_fields captures
\* (lower-cased, stripped strings; possibly empty) and what a caller passes.
Samples ==
    [subtotal |-> <<"100.00", "$1,000.50", "0.005">>,
     tax_amount |-> <<"10.00", "0.01", ",">>,
     shipping |-> <<"0", "5">>,
     discount |-> <<"0", "5", "abc">>,
     total |-> <<"110.00", "200", "0", "100.00">>,
     invoice_number |-> <<"inv-001", "INV-2024-001", "">>,
     invoice_date |-> <<"12/15/2024", "12-15-24", "january 5, 2024", "1/2/3">>,
     due_date |-> <<"1/2/2024x", "soon">>,
     vendor_name |-> <<"test company", "ACME corp.", "">>,
     vendor |-> <<"test company">>,
     notes |-> <<"net 30", "">>,
     line_items |->
        << <<>>,
           <<[description |-> "widget", quantity |-> Some(Num(2, 0)),
              unit_price |-> Some(Num(50, 0)), line_total |-> Some(Num(100, 0))]>>,
           <<[description |-> "widget", quantity |-> Some(Num(2, 0)),
              unit_price |-> Some(Num(5, 0)), line_total |-> Some(Num(10, 0))],
             [description |-> "a b", quantity |-> None,
              unit_price |-> None, line_total |-> None]>> >>]

\* The candidate maps over the fields S.
MapsOver(S) ==
    {[field \in S |-> Samples[field][c[field]]] :
        c \in {c \in [S -> 1 .. 4] : \A field \in S : c[field] <= Len(Samples[field])}}

\* The inputs of validate_extraction: the maps of at most n fields, and the maps
\* that hold all five amounts.
Candidates(n) ==
    UNION {MapsOver(S) : S \in {T \in SUBSET DOMAIN Samples : Cardinality(T) <= n}}
        \cup MapsOver(AmountFields)

\* A call validate_extraction(data); the function keeps no state between calls,
\* so each behaviour makes one.
ValidateExtraction ==
    /\ call = NoCall
    /\ \E data \in Candidates(MaxCandidates) :
         \E result \in validate_extraction(data) :
            call' = [op |-> "validate_extraction", data |-> data, result |-> result]
    /\ UNCHANGED <<now, requests, processed_invoices, invoice_hashes, client_invoices,
                   handler, served, admitted, stored, lastRL, lastDD, threads>>

\* Lines an invoice text may hold.
Lines ==
    <<"Invoice #: INV-2024-001", "Date: 12/15/2024", "Subtotal: $100.00", "Tax: $10.00",
      "Total: $110.00", "Paid by cash", "widget 2 5.00", "hello world", "notes:  ",
      "Vendor: Acme Corp">>

\* "\n".join(lines)
JoinLines(lines) ==
    Join([i \in 1 .. 2 * Len(lines) - 1 |-> IF i % 2 = 1 THEN lines[(i + 1) \div 2] ELSE "\n"])

\* An invoice of five lines: number, date, subtotal, tax and total.
SampleInvoice == JoinLines(SubSeq(Lines, 1, 5))

\* The inputs of extract_fields: the texts of at most max lines, and the invoice
\* of five lines.
Texts(max) ==
    {JoinLines([i \in 1 .. n |-> Lines[c[i]]]) :
        n \in 0 .. max, c \in [1 .. max -> 1 .. Len(Lines)]}
        \cup {SampleInvoice}

\* extracted_fields = model.extract_fields(raw_text) and then
\* validation_result = model.validate_extraction(extracted_fields); when the
\* first raises, the second is not called and there is no result.
ExtractFields ==
    /\ call = NoCall
    /\ \E text \in Texts(MaxLines) :
         \E fields \in {extract_fields(text)} :
            IF fields.raised
            THEN call' = [op |-> "extract_fields", text |-> text, raised |-> TRUE,
                          extracted |-> <<>>, result |-> None]
            ELSE \E result \in validate_extraction(fields.extracted) :
                    call' = [op |-> "extract_fields", text |-> text, raised |-> FALSE,
                             extracted |-> fields.extracted, result |-> Some(result)]
    /\ UNCHANGED <<now, requests, processed_invoices, invoice_hashes, client_invoices,
                   handler, served, admitted, stored, lastRL, lastDD, threads>>

\* Values a record given to calculate_confidence may hold for a field: one that
\* is truthy and one that is not.
ConfidenceSamples ==
    [invoice_number |-> <<"INV-001", "">>,
     date |-> <<"12/15/2024", "">>,
     invoice_date |-> <<"12/15/2024", "">>,
     total |-> <<Num(100, 0), Zero>>,
     vendor |-> <<"Test Company", "">>,
     vendor_name |-> <<"Test Company", "">>,
     subtotal |-> <<Num(90, 0), Zero>>,
     tax_amount |-> <<Num(10, 0), Zero>>,
     line_items |-> << <<[description |-> "widget", quantity |-> Some(Num(2, 0)),
                         unit_price |-> Some(Num(45, 0)), line_total |-> Some(Num(90, 0))]>>,
                       <<>> >>]

\* The inputs of calculate_confidence: the records over some of the fields.
Records(fields) ==
    UNION {{[field \in S |-> ConfidenceSamples[field][c[field]]] : c \in [S -> 1 .. 2]} :
            S \in SUBSET fields}

\* A call calculate_confidence(data).
CalculateConfidence ==
    /\ call = NoCall
    /\ \E data \in Records(DOMAIN ConfidenceSamples) :
         call' = [op |-> "calculate_confidence", data |-> data,
                  result |-> calculate_confidence(data)]
    /\ UNCHANGED <<now, requests, processed_invoices, invoice_hashes, client_invoices,
                   handler, served, admitted, stored, lastRL, lastDD, threads>>

\* Lines of the body of an invoice: one with a description and three numbers, a
\* header, a blank one, one of two tokens, one with a single number, one with a
\* number inside the description, one whose first numbers do not parse, and one
\* of numbers only.
ItemLines ==
    <<"widget 2 5.00 10.00", "Total 2 3", "   ", "5 6", "a b 1", "x 1 y $2,000.50",
      "bolt , 3", "1 2 3">>

\* Twelve qualifying lines, told apart by their quantity.
ItemRun ==
    <<"item 1 1.00", "item 2 1.00", "item 3 1.00", "item 4 1.00", "item 5 1.00",
      "item 6 1.00", "item 7 1.00", "item 8 1.00", "item 9 1.00", "item 10 1.00",
      "item 11 1.00", "item 12 1.00">>

\* The inputs of extract_line_items, as sequences of lines: at most max lines of
\* ItemLines followed by the first 0, 9, 10 or 12 lines of ItemRun.
ItemTexts(max) ==
    {[i \in 1 .. n |-> ItemLines[c[i]]] \o SubSeq(ItemRun, 1, r) :
        n \in 0 .. max, c \in [1 .. max -> 1 .. Len(ItemLines)], r \in {0, 9, 10, 12}}

\* A call extract_line_items(text).
ExtractLineItems ==
    /\ call = NoCall
    /\ \E lines \in ItemTexts(MaxLines) :
         call' = [op |-> "extract_line_items", lines |-> lines, text |-> JoinLines(lines),
                  result |-> extract_line_items(JoinLines(lines))]
    /\ UNCHANGED <<now, requests, processed_invoices, invoice_hashes, client_invoices,
                   handler, served, admitted, stored, lastRL, lastDD, threads>>

\* ------------------------------------------------------------------- clock
Tick ==
    /\ now < MaxTime
    /\ now' = now + 1
    /\ UNCHANGED <<requests, processed_invoices, invoice_hashes, client_invoices,
                   handler, served, admitted, stored, lastRL, lastDD, threads, call>>

\* --------------------------------------------------------- specifications
Init ==
    /\ now = 0
    /\ requests = [ip \in Ips |-> <<>>]
    /\ processed_invoices = <<>>
    /\ invoice_hashes = <<>>
    /\ client_invoices = <<>>
    /\ handler = IdleHandler
    /\ served = 0
    /\ admitted = [ip \in Ips |-> <<>>]
    /\ stored = {}
    /\ lastRL = NoCallRL
    /\ lastDD = NoCallDD
    /\ threads = [t \in Threads |-> IdleThread]
    /\ call = NoCall

\* The rate limiter driven through its three methods.
RLIsAllowed == \E ip \in Ips : IsAllowedCall(ip) /\ UNCHANGED <<now, handler, served, threads, call>> /\ UNCHANGED ddVars
RLGetRemaining == \E ip \in Ips : GetRemainingCall(ip) /\ UNCHANGED <<now, handler, served, threads, call>> /\ UNCHANGED ddVars
RLGetResetTime == \E ip \in Ips : GetResetTimeCall(ip) /\ UNCHANGED <<now, handler, served, threads, call>> /\ UNCHANGED ddVars

NextRL == Tick \/ RLIsAllowed \/ RLGetRemaining \/ RLGetResetTime

SpecRL == Init /\ [][NextRL]_vars

\* The duplicate detector driven through check_duplicate.
DDCheckDuplicate ==
    \E ip \in Ips, b \in Bytes, d \in InvoiceData :
        /\ Cardinality(stored) < MaxStored
        /\ CheckDuplicateCall(ip, b, d)
        /\ UNCHANGED <<now, handler, served, threads, call>> /\ UNCHANGED rlVars

NextDD == Tick \/ DDCheckDuplicate

SpecDD == Init /\ [][NextDD]_vars

\* The rate limiter and the duplicate detector called from several threads, a
\* call being interleaved with the others between its steps; check_duplicate is
\* given the record extracted from the bytes, as /api/extract does.
ThreadIsAllowed == \E t \in Threads, ip \in Ips : MTBeginIsAllowed(t, ip)
ThreadPrune == \E t \in Threads : MTPrune(t)
ThreadCheck == \E t \in Threads : MTCheck(t)
ThreadAppend == \E t \in Threads : MTAppend(t)
ThreadCheckDuplicate ==
    \E t \in Threads, ip \in Ips, b \in Bytes :
        /\ ~extract_invoice_data(b).raised
        /\ MTBeginCheckDuplicate(t, ip, b, extract_invoice_data(b).data)
ThreadHashLookup == \E t \in Threads : MTHashLookup(t)
ThreadKeyLookup == \E t \in Threads : MTKeyLookup(t)
ThreadStoreInvoice == \E t \in Threads : MTStoreInvoice(t)
ThreadStoreHash == \E t \in Threads : MTStoreHash(t)
ThreadStoreClient == \E t \in Threads : MTStoreClient(t)

NextMT ==
    \/ Tick
    \/ ThreadIsAllowed
    \/ ThreadPrune
    \/ ThreadCheck
    \/ ThreadAppend
    \/ ThreadCheckDuplicate
    \/ ThreadHashLookup
    \/ ThreadKeyLookup
    \/ ThreadStoreInvoice
    \/ ThreadStoreHash
    \/ ThreadStoreClient

SpecMT == Init /\ [][NextMT]_vars

\* The service: requests to the endpoints.
ApiExtractBegin == \E ip \in Ips, b \in Bytes : ExtractBegin(ip, b)
ApiExportBegin == \E ip \in Ips, b \in Bytes, f \in Formats : ExportBegin(ip, b, f)
ApiGetStats == \E ip \in Ips : GetStats(ip)

Next ==
    \/ Tick
    \/ ApiExtractBegin
    \/ ExtractFinish
    \/ ApiExportBegin
    \/ ExportFinish
    \/ Respond
    \/ ApiGetStats

Spec == Init /\ [][Next]_vars

\* validate_extraction on its own: every call on a candidate map.
NextModel == ValidateExtraction

SpecModel == Init /\ [][NextModel]_vars

\* extract_fields and validate_extraction on a text, as extract_invoice_data
\* calls them.
NextText == ExtractFields

SpecText == Init /\ [][NextText]_vars

\* calculate_confidence on its own: every call on a record.
NextConf == CalculateConfidence

SpecConf == Init /\ [][NextConf]_vars

\* extract_line_items on its own: every call on a text.
NextItems == ExtractLineItems

SpecItems == Init /\ [][NextItems]_vars

\* ------------------------------------------------- rate limiter: the claims
\* The admits in h that lie inside the trailing window at time t.
LiveAdmits(h, t) == SelectSeq(h, LAMBDA s : s >= t - window_seconds)

\* The admits of lastRL.ip recorded before the last call.
AdmitsBefore ==
    LET h == admitted[lastRL.ip]
    IN  IF lastRL.op = "is_allowed" /\ lastRL.ok THEN SubSeq(h, 1, Len(h) - 1) ELSE h

\* Clock values at which a later call is examined.
Horizon(t0) == t0 .. (MaxTime + window_seconds + 1)

\* C1: once max_requests admits of an identity lie inside the window, is_allowed
\* returns Denied (and get_remaining_requests returns 0); once the window has
\* elapsed since every earlier admit, is_allowed returns Allowed again.
C1_QuotaPerWindow ==
    /\ lastRL.op = "is_allowed" =>
         /\ Len(LiveAdmits(AdmitsBefore, lastRL.at)) >= max_requests => ~lastRL.ok
         /\ (\A i \in 1..Len(AdmitsBefore) : AdmitsBefore[i] < lastRL.at - window_seconds)
               => lastRL.ok
    /\ lastRL.op = "get_remaining_requests" =>
         (Len(LiveAdmits(AdmitsBefore, lastRL.at)) >= max_requests => lastRL.value = Some(0))

\* C1 witness: an identity was denied after it had filled a window, let it elapse
\* and filled the next one.
C1_Witness ==
    /\ lastRL.op = "is_allowed" /\ ~lastRL.ok
    /\ Len(admitted[lastRL.ip]) >= 2 * max_requests

\* C2: in every reachable state get_remaining_requests(identity) is max_requests
\* minus the number of admits still inside the trailing window, and is not negative.
C2_RemainingIsQuotaMinusLive ==
    \A ip \in Ips :
        LET v == get_remaining_requests(requests[ip], now).value
        IN  /\ v = max_requests - Len(LiveAdmits(admitted[ip], now))
            /\ v >= 0

\* C2 witness: get_remaining_requests answered for an identity that has both an
\* expired admit and a live one.
C2_Witness ==
    /\ lastRL.op = "get_remaining_requests"
    /\ lastRL.at = now
    /\ LiveAdmits(admitted[lastRL.ip], now) # <<>>
    /\ Len(LiveAdmits(admitted[lastRL.ip], now)) < Len(admitted[lastRL.ip])

\* C3: a Denied is_allowed records nothing (the deque is the pruned deque it found),
\* no deque ever holds more than max_requests timestamps, and a denied call changes
\* the verdict of no later call.
C3_DeniedRecordsNothing ==
    /\ \A ip \in Ips : Len(requests[ip]) <= max_requests
    /\ (lastRL.op = "is_allowed" /\ ~lastRL.ok) =>
         /\ requests[lastRL.ip] = PruneRequests(lastRL.pre, lastRL.at)
         /\ \A t \in Horizon(lastRL.at) :
              is_allowed(requests[lastRL.ip], t).ok = is_allowed(lastRL.pre, t).ok

\* C3 witness: a call was denied some time after the window had been filled.
C3_Witness ==
    /\ lastRL.op = "is_allowed" /\ ~lastRL.ok
    /\ Len(lastRL.pre) = max_requests
    /\ lastRL.at > lastRL.pre[Len(lastRL.pre)]

\* C4: get_reset_time returns the oldest live timestamp plus the window, and none
\* when the identity has no live timestamp.
C4_ResetTimeIsOldestLive ==
    lastRL.op = "get_reset_time" =>
        LET live == LiveAdmits(admitted[lastRL.ip], lastRL.at)
        IN  lastRL.value = IF live = <<>> THEN None ELSE Some(Head(live) + window_seconds)

\* C5: is_allowed admits exactly when get_remaining_requests at the same clock
\* value, just before it, is positive; and a call of get_remaining_requests or
\* get_reset_time changes the verdict of no later is_allowed call.
C5_AccessorsAgreeWithAdmission ==
    /\ lastRL.op = "is_allowed" =>
         (lastRL.ok <=> get_remaining_requests(lastRL.pre, lastRL.at).value > 0)
    /\ lastRL.op \in {"get_remaining_requests", "get_reset_time"} =>
         \A t \in Horizon(lastRL.at) :
            is_allowed(requests[lastRL.ip], t).ok = is_allowed(lastRL.pre, t).ok

\* C5 witness: get_remaining_requests pruned a deque that still keeps a live entry.
C5_Witness ==
    /\ lastRL.op = "get_remaining_requests"
    /\ requests[lastRL.ip] # lastRL.pre
    /\ requests[lastRL.ip] # <<>>

\* ----------------------------------------------- duplicate detector: the claims
\* What the last check_duplicate call was given.
LastHash == generate_content_hash(lastDD.bytes)
LastNumber == DictGet(lastDD.data.extracted_data, "invoice_number")
EntryNumber(e) == e.data.extracted_data.invoice_number

\* The entries stored before the last call that were inside / outside the
\* retention window when it was made.
LiveSeen == {e \in lastDD.seen : e.timestamp >= lastDD.at - retention_seconds}
AgedSeen == lastDD.seen \ LiveSeen

\* The last call carried the record that every earlier submission of the same
\* bytes carried (the same bytes extract to the same record).
SameDocument == \A e \in lastDD.seen : e.content_hash = LastHash => e.data = lastDD.data

\* C6: bytes stored within the retention window are reported as a duplicate for
\* any identity, together with the entry stored for their first submission.
C6_SameBytesReturnFirstRecord ==
    (lastDD.op = "check_duplicate" /\ SameDocument) =>
        LET S == {e \in LiveSeen : e.content_hash = LastHash}
        IN  S # {} =>
              /\ lastDD.is_duplicate
              /\ \E e \in S : /\ \A f \in S : e.timestamp <= f.timestamp
                              /\ lastDD.previous = Some(e)

\* C7: an identity that stored a business key within the retention window gets
\* is_duplicate = true for that key again, whatever the bytes and whatever other
\* identities stored in between.
C7_SameKeySameIdentityIsDuplicate ==
    (lastDD.op = "check_duplicate" /\ Truthy(LastNumber)) =>
        ((\E e \in LiveSeen : e.client_ip = lastDD.ip /\ EntryNumber(e) = LastNumber[1])
            => lastDD.is_duplicate)

\* C8: a record without a business key is never a duplicate and is never stored.
C8_NoKeyNeverDuplicate ==
    (lastDD.op = "check_duplicate" /\ ~Truthy(LastNumber)) =>
        (~lastDD.is_duplicate /\ lastDD.entry = None)

\* C9: a document stored more than the retention window ago matches no more:
\* resubmitting its bytes or its business key, with no live entry of those bytes
\* or of that identity and key, is reported as non-duplicate.
C9_AgedEntriesMatchNoMore ==
    (lastDD.op = "check_duplicate" /\ SameDocument) =>
        LET matches(e) ==
                \/ e.content_hash = LastHash
                \/ Truthy(LastNumber) /\ EntryNumber(e) = LastNumber[1]
            justifies(e) ==
                \/ e.content_hash = LastHash
                \/ /\ Truthy(LastNumber) /\ EntryNumber(e) = LastNumber[1]
                   /\ e.client_ip = lastDD.ip
        IN  ((\E e \in AgedSeen : matches(e)) /\ ~(\E e \in LiveSeen : justifies(e)))
                => ~lastDD.is_duplicate

\* ------------------------------------------------------ endpoints: the claims
\* The maps of the duplicate detector.
DedupState == <<processed_invoices, invoice_hashes, client_invoices>>

\* The calls a request has made are in the order of the handler: is_allowed first,
\* and check_duplicate only in an admitted /api/extract request, right after the
\* extraction.
AdmissionFirst ==
    /\ handler.pc # "idle" => (handler.trace # <<>> /\ handler.trace[1] = "is_allowed")
    /\ handler.status = 429 => (~handler.allowed /\ handler.trace = <<"is_allowed">>)
    /\ ~handler.allowed => handler.pc \in {"idle", "done"}
    /\ \A i \in 1..Len(handler.trace) :
          handler.trace[i] = "check_duplicate" =>
             /\ handler.allowed
             /\ handler.endpoint = "extract"
             /\ SubSeq(handler.trace, 1, i - 1) = <<"is_allowed", "extract_invoice_data">>

\* C10: in /api/extract and /api/export the admission check comes first: a denied
\* request extracts nothing and leaves the deduplication state as it is, and the
\* deduplication state changes only in the second half of an admitted /api/extract
\* request, after its record was extracted.
C10_AdmissionGatesRequests ==
    /\ []AdmissionFirst
    /\ [][(handler.pc = "idle" /\ handler'.status = 429) => DedupState' = DedupState]_vars
    /\ [][DedupState' # DedupState =>
             /\ handler.pc = "reading" /\ handler.allowed /\ handler.endpoint = "extract"
             /\ ~extract_invoice_data(handler.bytes).raised
             /\ handler'.pc = "done"]_vars

\* C10 witness: a request is denied while the detector holds the entry of an earlier,
\* admitted request.
C10_Witness ==
    /\ handler.pc = "done" /\ handler.status = 429
    /\ DOMAIN processed_invoices # {}

\* What get_remaining_requests would answer the identity now.
Remaining(ip) == get_remaining_requests(requests[ip], now).value

\* A request that passes admission takes one slot of its identity as it is
\* admitted, and no slot of any other identity.
AdmissionTakesOneSlot ==
    handler.pc = "idle" /\ handler'.pc # "idle" /\ handler'.allowed =>
        \A ip \in Ips :
            Remaining(ip)' = IF ip = handler'.ip THEN Remaining(ip) - 1 ELSE Remaining(ip)

\* The rest of the request (extraction, duplicate check, export, response), however
\* it ends, takes no slot and gives none back.
OutcomeTakesNoSlot ==
    handler.pc # "idle" /\ handler' # handler => \A ip \in Ips : Remaining(ip)' = Remaining(ip)

\* C25: a request to /api/extract or /api/export that passes admission consumes
\* exactly one slot of its identity's quota, whether it succeeds, fails (500, or
\* 400 for an unknown export format) or is answered as a duplicate; the two
\* endpoints share the quota, so an identity with K admitted requests inside the
\* window has max_requests - K remaining.
C25_OneSlotPerAdmittedRequest ==
    /\ [][AdmissionTakesOneSlot]_vars
    /\ [][OutcomeTakesNoSlot]_vars
    /\ [](\A ip \in Ips : Remaining(ip) = max_requests - Len(LiveAdmits(admitted[ip], now)))

\* C25 witness: an export with an unknown format is answered 400 after it took
\* the last slot of an identity whose earlier request was admitted too.
C25_Witness ==
    /\ handler.pc = "done" /\ handler.status = 400 /\ handler.allowed
    /\ Len(LiveAdmits(admitted[handler.ip], now)) = max_requests
    /\ Remaining(handler.ip) = 0

\* ------------------------------------------------------- threads: the claims
\* The admits of an identity whose timestamps lie in the window that starts at w.
AdmitsInWindow(ip, w) ==
    SelectSeq(admitted[ip], LAMBDA s : w <= s /\ s <= w + window_seconds)

\* Every content hash and every business key of an identity refers to an entry of
\* processed_invoices that holds that hash / that identity.
MapsConsistent ==
    /\ \A h \in DOMAIN invoice_hashes :
          /\ invoice_hashes[h] \in DOMAIN processed_invoices
          /\ processed_invoices[invoice_hashes[h]].content_hash = h
    /\ \A ip \in DOMAIN client_invoices : \A n \in client_invoices[ip] :
          /\ n \in DOMAIN processed_invoices
          /\ processed_invoices[n].client_ip = ip

\* No check_duplicate call is in progress.
NoCheckInProgress == \A t \in Threads : threads[t].op # "check_duplicate"

\* C11 (first half): with is_allowed calls interleaved between their prune, check
\* and append steps, no window holds more than max_requests admits of an identity.
C11_QuotaUnderInterleaving ==
    \A ip \in Ips : \A w \in 0 .. MaxTime : Len(AdmitsInWindow(ip, w)) <= max_requests

\* C11 (second half): once the interleaved check_duplicate calls have returned,
\* the three maps are mutually consistent.
C11_MapsConsistentUnderInterleaving == NoCheckInProgress => MapsConsistent

\* C11: under calls interleaved at the granularity of their steps, the admits of
\* an identity within one window never exceed max_requests, and check_duplicate
\* calls never leave the three maps mutually inconsistent.
C11_SafeUnderConcurrency ==
    C11_QuotaUnderInterleaving /\ C11_MapsConsistentUnderInterleaving

\* --------------------------------------------------- validation: the claims
Validated == call.op = "validate_extraction"

\* C12: whatever candidate map validate_extraction is given, the record and the
\* confidence map it returns have the same keys, all of them keys of the input (a
\* dropped field is in neither), every confidence lies in [0, 1], and line_items
\* carries 0.8 when its list is non-empty and 0.0 when it is empty.
C12_RecordAndConfidencesAgree ==
    Validated =>
        LET record == call.result.extracted_data
            field_confidence == call.result.field_confidence
        IN  /\ DOMAIN record = DOMAIN field_confidence
            /\ DOMAIN record \subseteq DOMAIN call.data
            /\ \A field \in DOMAIN field_confidence :
                    field_confidence[field] >= 0 /\ field_confidence[field] <= 100
            /\ "line_items" \in DOMAIN call.data =>
                    /\ "line_items" \in DOMAIN field_confidence
                    /\ field_confidence["line_items"]
                         = IF call.data["line_items"] = <<>> THEN 0 ELSE 80

\* A call that dropped a field and kept another next to an empty line_items list.
C12_Witness ==
    /\ Validated
    /\ "line_items" \in DOMAIN call.data
    /\ call.data["line_items"] = <<>>
    /\ DOMAIN call.result.extracted_data # DOMAIN call.data
    /\ Cardinality(DOMAIN call.result.extracted_data) >= 2

\* count * (average + boost - penalty) of a result, in hundredths, computed from
\* the result's own confidence map and flag.
ScaledConfidence(result) ==
    LET field_confidence == result.field_confidence
        count == Cardinality(DOMAIN field_confidence)
        absent == {i \in 1 .. 4 :
                     <<"invoice_number", "invoice_date", "total", "vendor_name">>[i]
                        \notin DOMAIN field_confidence}
    IN  SumOver(field_confidence, DOMAIN field_confidence)
            + count * ((IF result.math_validation.calculations_correct THEN 10 ELSE 0)
                        - 5 * Cardinality(absent))

\* x limited to lo .. hi.
Clamp(x, lo, hi) == IF x < lo THEN lo ELSE IF x > hi THEN hi ELSE x

\* C13: overall_confidence is the average of the per-field confidences, plus 0.10
\* when calculations_correct, minus 0.05 for each required field absent from the
\* confidence map, clamped to [0, 1] and rounded to two decimals (0.0 for an empty
\* confidence map); it is never negative and never above 1.
C13_OverallConfidenceClamped ==
    Validated =>
        LET overall == call.result.overall_confidence
            count == Cardinality(DOMAIN call.result.field_confidence)
            exact == Clamp(ScaledConfidence(call.result), 0, 100 * count)
            error == overall * count - exact
        IN  /\ overall >= 0
            /\ overall <= 100
            /\ 2 * error <= count
            /\ -2 * error <= count

\* An amount of a validated record in thousandths, 0 when the record has none
\* (no amount of the explored inputs has more than three decimals).
Thousandths(record, field) ==
    IF field \in DOMAIN record
    THEN record[field].n * Pow10(3 - record[field].k)
    ELSE 0

UnparsableAmounts == {",", "abc"}
ExpectedThousandths(value) ==
    CASE value = "100.00" -> 100000
      [] value = "$1,000.50" -> 1000500
      [] value = "0.005" -> 5
      [] value = "10.00" -> 10000
      [] value = "0.01" -> 10
      [] value = "0" -> 0
      [] value = "5" -> 5000
      [] value = "110.00" -> 110000
      [] value = "200" -> 200000
ExpectedUpper(value) ==
    CASE value = "inv-001" -> "INV-001"
      [] value = "INV-2024-001" -> "INV-2024-001"
      [] value = "" -> ""
ExpectedTitle(value) ==
    CASE value = "test company" -> "Test Company"
      [] value = "ACME corp." -> "Acme Corp."
      [] value = "" -> ""
\* The sample dates made of digits, "/", digits, "/", digits, and those that
\* begin with that shape with "/" or "-" as separators.
SlashDates == {"12/15/2024"}
DateShapedPrefix == {"12/15/2024", "12-15-24", "1/2/2024x"}

\* The field was dropped from the record and from the confidence map.
Dropped(field) ==
    /\ field \notin DOMAIN call.result.extracted_data
    /\ field \notin DOMAIN call.result.field_confidence

\* The field is in the record with this confidence.
Kept(field, confidence) ==
    /\ field \in DOMAIN call.result.extracted_data
    /\ field \in DOMAIN call.result.field_confidence
    /\ call.result.field_confidence[field] = confidence

\* The rule of field applied to its candidate, the dates that earn 0.8 being
\* shaped.
RuleApplied(field, shaped) ==
    LET value == call.data[field]
        record == call.result.extracted_data
    IN  IF field \in {"subtotal", "tax_amount", "discount", "shipping", "total"}
        THEN IF value \in UnparsableAmounts THEN Dropped(field)
             ELSE Kept(field, 90) /\ Thousandths(record, field) = ExpectedThousandths(value)
        ELSE IF field = "invoice_number"
        THEN Kept(field, 90) /\ record[field] = ExpectedUpper(value)
        ELSE IF field = "vendor_name"
        THEN Kept(field, 70) /\ record[field] = ExpectedTitle(value)
        ELSE IF field \in {"invoice_date", "due_date"}
        THEN Kept(field, IF value \in shaped THEN 80 ELSE 50) /\ record[field] = value
        ELSE Kept(field, 60) /\ record[field] = value

RequiredPosition(field) ==
    CASE field = "invoice_number" -> 1
      [] field = "invoice_date" -> 2
      [] field = "total" -> 3
      [] field = "vendor_name" -> 4

\* The record holds no value for the required field, or a falsy one: the number
\* 0 for total, the empty string for the others.
AbsentOrFalsy(record, field) ==
    \/ field \notin DOMAIN record
    \/ IF field = "total" THEN record[field].n = 0 ELSE record[field] = ""

\* C19: missing_required_fields lists, in the order invoice_number, invoice_date,
\* total, vendor_name, exactly the required fields that are absent from the
\* validated record or whose value is falsy.
C19_MissingRequiredFields ==
    Validated =>
        LET missing == call.result.missing_required_fields
            record == call.result.extracted_data
        IN  /\ \A field \in {"invoice_number", "invoice_date", "total", "vendor_name"} :
                    (\E i \in 1 .. Len(missing) : missing[i] = field)
                        <=> AbsentOrFalsy(record, field)
            /\ \A i, j \in 1 .. Len(missing) :
                    i < j => RequiredPosition(missing[i]) < RequiredPosition(missing[j])

\* A record whose total is the number 0: total is listed as missing although
\* the record has the key; invoice_number is present and not listed.
C19_Witness ==
    /\ Validated
    /\ "total" \in DOMAIN call.result.extracted_data
    /\ call.result.extracted_data["total"] = Zero
    /\ "invoice_number" \in DOMAIN call.result.extracted_data
    /\ call.result.missing_required_fields = <<"invoice_date", "total", "vendor_name">>

\* C26: in every result of validate_extraction a required field is listed in
\* missing_required_fields exactly when it incurred the missing-field penalty of
\* overall_confidence, which a field absent from the confidence map does; a total
\* extracted as 0 is no exception.
C26_MissingListMatchesPenalty ==
    Validated =>
        \A field \in {"invoice_number", "invoice_date", "total", "vendor_name"} :
            (\E i \in 1 .. Len(call.result.missing_required_fields) :
                    call.result.missing_required_fields[i] = field)
                <=> field \notin DOMAIN call.result.field_confidence

\* --------------------------------------------------- extraction: the claims
Extracted == call.op = "extract_fields"

\* No pattern of any field matches the lower-cased text.
NoPatternMatches(text) ==
    \A lower \in {StrLower(text)} :
        \A i \in 1 .. Len(Patterns) :
            \A j \in 1 .. Len(Patterns[i].patterns) :
                re_search(Patterns[i].patterns[j], lower) = None

\* extract_fields and validate_extraction returned a record with zero fields,
\* confidence 0.0 and all four required fields missing.
NothingExtracted ==
    /\ ~call.raised
    /\ call.result[1].extracted_data = <<>>
    /\ call.result[1].overall_confidence = 0
    /\ call.result[1].missing_required_fields
         = <<"invoice_number", "invoice_date", "total", "vendor_name">>

\* C15 as stated: for the empty text, or a text in which no field pattern matches,
\* extract_fields followed by validate_extraction returns, without raising, a
\* record with zero fields, overall_confidence 0.0 and all four required fields
\* missing.
C15_NoMatchGivesNothing ==
    Extracted /\ NoPatternMatches(call.text) => NothingExtracted

\* C15 amended: the same, for a text in which no field pattern matches and no
\* line qualifies as a line item.
C15_NoMatchNoLineItemGivesNothing ==
    Extracted /\ NoPatternMatches(call.text) /\ extract_line_items(call.text) = <<>>
        => NothingExtracted

\* A text of words that no pattern matches and that holds no line item.
C15_Witness ==
    /\ Extracted
    /\ call.text = "hello world"
    /\ NoPatternMatches(call.text)
    /\ NothingExtracted

\* C16: for every text, extract_fields and validate_extraction return a result
\* without raising, whichever pattern of whichever field matches.
C16_NeverRaises ==
    Extracted => ~call.raised /\ call.result # None

\* The text has the line "Subtotal: $100.00" and, further down, the line
\* "Total: $110.00".
SubtotalThenTotal(text) ==
    \A lines \in {SplitOn(text, "\n")} :
        \E i, j \in 1 .. Len(lines) :
            i < j /\ lines[i] = "Subtotal: $100.00" /\ lines[j] = "Total: $110.00"

\* The validated record holds the total 110.00.
TotalIs110 ==
    /\ ~call.raised
    /\ "total" \in DOMAIN call.result[1].extracted_data
    /\ call.result[1].extracted_data["total"] = Num(110, 0)

\* C17: the invoice of five lines yields invoice_number "INV-2024-001", total
\* 110.00, subtotal_tax_total_match and calculations_correct true and an overall
\* confidence of at least 0.8; and whenever a text has a "Subtotal: S" line and a
\* later "Total: T" line, the extracted total is T.
C17_SampleInvoiceExtracted ==
    /\ Extracted /\ call.text = SampleInvoice =>
            /\ TotalIs110
            /\ "invoice_number" \in DOMAIN call.result[1].extracted_data
            /\ call.result[1].extracted_data["invoice_number"] = "INV-2024-001"
            /\ call.result[1].math_validation.subtotal_tax_total_match
            /\ call.result[1].math_validation.calculations_correct
            /\ call.result[1].overall_confidence >= 80
    /\ Extracted /\ SubtotalThenTotal(call.text) => TotalIs110

\* --------------------------------------------------- confidence: the claims
\* C20: calculate_confidence returns 1.0 for the record holding all four of
\* invoice_number, date, total and vendor, 0.5 for the record holding two of
\* them, and 0.0 for the empty record.
C20_ConfidenceOfTestRecords ==
    call.op = "calculate_confidence" =>
        /\ call.data = [invoice_number |-> "INV-001", date |-> "12/15/2024",
                        total |-> Num(100, 0), vendor |-> "Test Company"]
                => call.result = 100
        /\ call.data = [invoice_number |-> "INV-001", date |-> "12/15/2024"]
                => call.result = 50
        /\ call.data = <<>> => call.result = 0

\* ---------------------------------------------------- cache maps: the claims
\* C21: after every check_duplicate call the three maps are mutually consistent
\* (every content hash of the hash index and every business key of an identity's
\* key set refers to an entry of the primary map that holds that hash / that
\* identity), no entry older than the retention window remains, and no identity
\* is kept with an empty key set.
C21_MapsConsistentAfterCall ==
    lastDD.op = "check_duplicate" =>
        /\ MapsConsistent
        /\ \A n \in DOMAIN processed_invoices :
              processed_invoices[n].timestamp >= lastDD.at - retention_seconds
        /\ \A ip \in DOMAIN client_invoices : client_invoices[ip] # {}

\* The last call reported a duplicate through the content-hash lookup (a call
\* that reports a duplicate stores nothing, so the maps are those it looked into).
DuplicateByHash ==
    /\ lastDD.op = "check_duplicate"
    /\ lastDD.is_duplicate
    /\ LastHash \in DOMAIN invoice_hashes
    /\ invoice_hashes[LastHash] \in DOMAIN processed_invoices

\* C24: the entry returned for a duplicate found through the content-hash lookup
\* holds the hash of the submitted bytes, also after another identity has stored
\* a different document under the same invoice number.
C24_HashDuplicateReturnsSameBytes ==
    DuplicateByHash => lastDD.previous[1].content_hash = LastHash

\* ------------------------------------------------- field patterns: the claims
\* The patterns of the i-th field that match the lower-cased text, by position.
MatchingPatterns(i, lower) ==
    {j \in 1 .. Len(Patterns[i].patterns) : re_search(Patterns[i].patterns[j], lower) # None}

\* The candidate of the i-th field is the trimmed capture of the first of its
\* patterns that matches; the field is absent when none of them matches.
FirstMatchCaptured(i, lower) ==
    \A matching \in {MatchingPatterns(i, lower)} :
        IF matching = {} THEN Patterns[i].field \notin DOMAIN call.extracted
        ELSE \A pattern \in {Patterns[i].patterns[MinOf(matching)]} :
                /\ Patterns[i].field \in DOMAIN call.extracted
                /\ Groups(pattern) >= 1
                /\ call.extracted[Patterns[i].field]
                     = StrStrip(MatchGroup1(lower, re_search(pattern, lower)))

\* C22: extract_fields yields, for each field, the trimmed capture of the first
\* pattern of the field, in its fixed order, that matches the lower-cased text,
\* later patterns being of no effect; a field none of whose patterns matches is
\* absent from the result, and the result holds no other field.
C22_FirstMatchingPatternWins ==
    Extracted =>
        /\ ~call.raised
        /\ \A lower \in {StrLower(call.text)} :
                \A i \in 1 .. Len(Patterns) : FirstMatchCaptured(i, lower)
        /\ DOMAIN call.extracted
              \subseteq {Patterns[i].field : i \in 1 .. Len(Patterns)} \cup {"line_items"}

\* --------------------------------------------------- line items: the claims
\* What extract_line_items is to make of a sample line, written out: no item, or
\* the item with its description, its quantity (first numeric token), unit price
\* (second-to-last) and line total (last).
Item(description, quantity, unit_price, line_total) ==
    <<[description |-> description, quantity |-> quantity,
       unit_price |-> unit_price, line_total |-> line_total]>>

ExpectedItem(line) ==
    CASE line = "widget 2 5.00 10.00" ->
            Item("widget", Some(Num(2, 0)), Some(Num(5, 0)), Some(Num(10, 0)))
      [] line = "x 1 y $2,000.50" ->
            Item("x 1", Some(Num(1, 0)), Some(Num(1, 0)), Some(Num(20005, 1)))
      [] line = "bolt , 3" -> Item("bolt", None, None, Some(Num(3, 0)))
      [] line = "1 2 3" -> Item("", Some(Num(1, 0)), Some(Num(2, 0)), Some(Num(3, 0)))
      [] \E i \in 1 .. Len(ItemRun) : line = ItemRun[i] ->
            LET i == CHOOSE i \in 1 .. Len(ItemRun) : line = ItemRun[i]
            IN  Item("item", Some(Num(i, 0)), Some(Num(i, 0)), Some(Num(1, 0)))
      [] OTHER -> <<>>

RECURSIVE ExpectedItems(_)
ExpectedItems(lines) ==
    IF lines = <<>> THEN <<>> ELSE ExpectedItem(Head(lines)) \o ExpectedItems(Tail(lines))

\* C23: extract_line_items returns, in text order, the first 10 at most of the
\* lines that qualify (non-blank, no header token, at least 3 tokens of which at
\* least 2 are numeric-shaped), each with the first numeric token as quantity,
\* the second-to-last as unit_price and the last as line_total.
C23_FirstTenQualifyingLines ==
    call.op = "extract_line_items" =>
        LET expected == ExpectedItems(call.lines)
        IN  /\ Len(call.result) <= 10
            /\ call.result
                 = SubSeq(expected, 1, IF Len(expected) < 10 THEN Len(expected) ELSE 10)

\* A text of more than ten qualifying lines, after a header line: the first ten
\* are returned, the first of them a line with three numbers.
C23_Witness ==
    /\ call.op = "extract_line_items"
    /\ call.lines = <<"Total 2 3", "widget 2 5.00 10.00">> \o ItemRun
    /\ Len(call.result) = 10
    /\ call.result[1].unit_price = Some(Num(5, 0))
    /\ call.result[10].quantity = Some(Num(9, 0))

====
